---- MODULE Spec2Model ----
(***************************************************************************)
(* Due-task notification pipeline of the ToDo backend.                     *)
(*                                                                         *)
(*   backend/todo/tasks.py                      notify_upcoming_tasks      *)
(*   backend/services/telegram_notifications.py send_telegram_message_task *)
(*   backend/todo/models.py, backend/users/models.py   the rows            *)
(*   backend/services/pk_keygen.py              generate_pk                *)
(*                                                                         *)
(* Time is counted in seconds.  An optional (nullable) column is a set:    *)
(* the empty set is SQL NULL, a singleton holds the value.  A string is a  *)
(* sequence of Unicode code points, which is what Python compares strings  *)
(* by.                                                                     *)
(***************************************************************************)
EXTENDS Integers, FiniteSets, Sequences, TLC

NULL == {}
Some(v) == {v}
The(s) == CHOOSE v \in s : TRUE

(* ---- bounds of the model ---- *)
MaxTasks == 2
MaxRuns == 2
MaxClock == 1
MaxAborts == 1
MaxThreads == 2
MaxCalls == 3
MaxSpan == 2
MaxSeeders == 2
MaxCategories == 3
MaxUsers == 3
MaxRequests == 1
MaxEvents == 6
MaxTicks == 3
MaxNumber == 3850
MaxNegative == 3
MaxMessages == 2
MaxRegistrations == 2
MaxHttpRetries == 3
MaxDialogCategories == 4
MaxToggles == 4
MaxKeyMs == 63
MaxKeyCounter == 62
MaxApiTasks == 1
MaxIds == 2

(* ---- program constants ---- *)
NOTIFICATION_LOOKAHEAD_HOURS == 24
MAX_RETRIES == 5
BASE_RETRY_DELAY_SECONDS == 5
MAX_RETRY_DELAY_SECONDS == 60
_MAX_LEN == 26
MESSAGE_LIMIT == 5
MESSAGE_PER_SECONDS == 10
HITS_MAXLEN == 100
TagLimit == 3

Tasks == 1..MaxTasks
Runs == 1..MaxRuns
Threads == 1..MaxThreads
Seeders == 1..MaxSeeders
Registrations == 1..MaxRegistrations

(* Telegram users the bot hears from. *)
BotUsers == {7, 8}

(* TaskStatus.ACTIVE / DONE / EXPIRED *)
ACTIVE == "active"
TaskStatus == {"active", "done", "expired"}

(* Users of the store: two registered through the bot (they carry a       *)
(* Telegram id), one created with a username only.                         *)
Users == {"u1", "u2", "u3"}
telegram_user_id == [u \in Users |-> IF u = "u3" THEN NULL
                                     ELSE IF u = "u1" THEN Some(101) ELSE Some(102)]

(* The task rows the runs start from.  Due times sit on the edges of the   *)
(* window of a run that reads now = 0 or now = 1: exactly now, now + 24h,  *)
(* now + 24h + 1s.  A task that is not active or whose owner has no chat   *)
(* id is taken with a due time inside the window.                          *)
TaskInputs ==
  << [user |-> "u1", status |-> "active",  due_at |-> Some(86400)],
     [user |-> "u2", status |-> "active",  due_at |-> Some(86401)],
     [user |-> "u1", status |-> "active",  due_at |-> Some(0)],
     [user |-> "u2", status |-> "active",  due_at |-> NULL],
     [user |-> "u1", status |-> "done",    due_at |-> Some(86400)],
     [user |-> "u3", status |-> "active",  due_at |-> Some(86400)] >>

VARIABLES
  clock,            \* timezone.now(), in seconds
  task,             \* committed Task rows: user, status, due_at, due_notified_at
  pc,               \* position of each scanner run
  sel,              \* tasks_to_notify: the rows the run's transaction holds locked
  todo,             \* rows of tasks_to_notify not yet iterated
  written,          \* uncommitted due_notified_at writes of the run's transaction
  raised,           \* tasks whose dispatch raised in the run (LOGGER.exception)
  processed_count,  \* the run's processed_count
  msgs,             \* send_telegram_message_task invocations handed to the queue
  marks,            \* per task: committed null -> non-null changes of due_notified_at
  aborts,           \* number of runs that died inside the transaction
  rolledBack,       \* tasks released by an aborted run and not selected since
  prior             \* what the next query follows.  "none": no query has run
                    \* yet.  "clean": the latest query ran with no other
                    \* transaction open, the clock has not moved since, no
                    \* dispatch has raised and no run has aborted since.
                    \* "failed": the same, but a dispatch has raised or a run
                    \* has aborted since.  "stale": the clock has moved since
                    \* the latest query, or that query overlapped another run.

VARIABLES
  wall,             \* the host's wall clock, in ms: what _now_ms() returns
  PK_PREFIX,        \* the environment variable PK_PREFIX of the process
  _last_ms,         \* pk_keygen._last_ms
  _counter,         \* pk_keygen._counter
  _lock,            \* pk_keygen._lock: the thread that holds it, or NULL
  kpc,              \* position of each thread inside generate_pk
  call,             \* per thread: the argument and locals of its call
  issued            \* the calls that have returned, in the order they returned

VARIABLES
  categories,       \* the rows of todo_category: id, owner, name, slug
  seeding,          \* per migrate process: its position in ensure_preset_categories
  nulls_distinct,   \* the store's reading of uq_category_owner_slug on NULL owners
  category_result   \* what the latest category operation ended with

VARIABLES
  user_rows,        \* the rows of the user table: id, username, telegram_user_id
  pending_username, \* bot registrations between the creation and the username save
  user_result,      \* what the latest user operation ended with
  register          \* per bot registration request: its position in BotRegisterView.post

VARIABLES
  instance,         \* the Task object an API request has loaded and not yet saved
  requests          \* number of API update requests received so far

VARIABLES
  time,             \* time.time() of the bot process, in seconds
  _hits,            \* RateLimitMiddleware._hits: per user id the deque of hit times
  handled,          \* the events the middleware has passed to the handler
  answers           \* number of "too often" answers the middleware has sent

VARIABLES
  num_arg,          \* the argument of a direct call of _b62_encode
  encoded           \* NULL before the call; then what the call ended with

VARIABLES
  _retries,         \* BackendAPI._retries, from settings.http_retries
  api_pc,           \* position of the one BackendAPI.create_task call
  attempt,          \* the loop variable of _request
  last_exc,         \* _request's last_exc
  api_result,       \* NULL, or what _request ended with
  last_reply,       \* what the latest HTTP attempt came back with
  http_attempts,    \* number of self._client.request calls made
  backend_tasks     \* number of tasks the backend has created for the call

VARIABLES
  dialog,           \* the dialog the bot user is in: "none", "add", "edit", "done"
  cats_sel,         \* dialog_data["cats_sel"], a list of category ids
  item_id,          \* the item_id of the latest toggle, NULL before the first
  toggles,          \* number of toggles handled in the dialog
  start_len         \* length of cats_sel when the dialog reached the category window

VARIABLES
  key_args,         \* the (now_ms, _counter) pair a key is formatted from
  key_out           \* NULL before the formatting; then the key

VARIABLES
  api_tasks,        \* the tasks made through the API: id, user, title, categories
  atomic_requests,  \* the store's ATOMIC_REQUESTS setting
  api_response      \* NULL, or what the latest TaskSerializer request ended with

scannerVars == << clock, task, pc, sel, todo, written, raised, processed_count,
                  msgs, marks, aborts, rolledBack, prior >>
keygenVars == << wall, PK_PREFIX, _last_ms, _counter, _lock, kpc, call, issued >>
categoryVars == << categories, seeding, nulls_distinct, category_result >>
userVars == << user_rows, pending_username, user_result, register >>
crudVars == << instance, requests >>
rateVars == << time, _hits, handled, answers >>
encodeVars == << num_arg, encoded >>
apiVars == << _retries, api_pc, attempt, last_exc, api_result, last_reply,
             http_attempts, backend_tasks >>
dialogVars == << dialog, cats_sel, item_id, toggles, start_len >>
pairVars == << key_args, key_out >>
linkVars == << api_tasks, atomic_requests, api_response >>
restVars == << apiVars, dialogVars, pairVars, linkVars >>
appVars == << categoryVars, userVars, crudVars, rateVars, encodeVars, restVars >>
vars == << scannerVars, keygenVars, appVars >>

(* pk_keygen.py 14-16 at import, no thread inside generate_pk.  The host   *)
(* runs with PK_PREFIX unset.                                              *)
NoCall == [kind |-> << >>, now_ms |-> NULL, raised |-> FALSE]
ModuleLoaded ==
  /\ _lock = NULL
  /\ _last_ms = 0
  /\ _counter = 0
  /\ kpc = [th \in Threads |-> "idle"]
  /\ call = [th \in Threads |-> NoCall]
  /\ issued = << >>

(* No migrate process is seeding; the category table is empty and is kept  *)
(* by a store whose unique constraints take NULLs as distinct.             *)
NoCategories ==
  /\ categories = {}
  /\ seeding = [p \in Seeders |-> [pc |-> "idle", i |-> 1]]
  /\ nulls_distinct = TRUE
  /\ category_result = "none"

(* The parts of the application outside the scanner and the key generator  *)
(* at rest.                                                                *)
(* The user table of a fresh store, no registration request in progress. *)
NoUsers ==
  /\ user_rows = {}
  /\ pending_username = {}
  /\ register = [p \in Registrations |->
                  [pc |-> "idle", tg_id |-> NULL, username |-> NULL,
                   user |-> NULL, is_new |-> FALSE, status |-> 0]]
  /\ user_result = "none"

(* No API request on a task is between its load and its save. *)
NoRequest == instance = NULL /\ requests = 0

(* RateLimitMiddleware.__init__: no hits recorded; the bot has seen no     *)
(* event.                                                                  *)
NoHits ==
  /\ time = 0
  /\ _hits = [u \in BotUsers |-> << >>]
  /\ handled = << >>
  /\ answers = 0

(* No direct call of _b62_encode. *)
NoEncodeCall == num_arg = 0 /\ encoded = NULL

(* No BackendAPI call is in progress in the bot process. *)
NoApiCall ==
  /\ _retries = 0
  /\ api_pc = "idle"
  /\ attempt = 0
  /\ last_exc = NULL
  /\ api_result = NULL
  /\ last_reply = NULL
  /\ http_attempts = 0
  /\ backend_tasks = 0

(* The bot user is in no dialog. *)
NoDialog ==
  /\ dialog = "none"
  /\ cats_sel = << >>
  /\ item_id = NULL
  /\ toggles = 0
  /\ start_len = 0

(* No key is being formatted outside generate_pk's callers. *)
NoKeyPair == key_args = [ms |-> 0, counter |-> 0] /\ key_out = NULL

(* No task has been made through TaskSerializer; requests do not run in a  *)
(* transaction (Django's default).                                         *)
NoApiTasks ==
  /\ api_tasks = {}
  /\ atomic_requests = FALSE
  /\ api_response = NULL

RestIdle == NoApiCall /\ NoDialog /\ NoKeyPair /\ NoApiTasks

AppIdle ==
  NoCategories /\ NoUsers /\ NoRequest /\ NoHits /\ NoEncodeCall /\ RestIdle

NoWrites == [t \in Tasks |-> NULL]

(* ---- helpers read off the committed state ---- *)
Enqueued(t) == Cardinality({m \in msgs : m.task = t})
InTxn(r) == pc[r] = "loop"
(* variant: the query is issued without select_for_update *)
LockedTasks_none(r) == {}
LockedTasks(r) == IF InTxn(r) THEN sel[r] ELSE {}
LockedUsers(r) == {task[t].user : t \in LockedTasks(r)}

(* variant: the query does not look at the locks of other transactions *)
LockedByOther_never(r, t) == FALSE

(* select_for_update(skip_locked=True).select_related("user"): a joined    *)
(* row is skipped when another transaction holds the task row or the       *)
(* joined user row.                                                        *)
LockedByOther(r, t) ==
  \E q \in Runs \ {r} : t \in LockedTasks(q) \/ task[t].user \in LockedUsers(q)

(* now + timedelta(hours=NOTIFICATION_LOOKAHEAD_HOURS) *)
WindowEnd(n) == n + NOTIFICATION_LOOKAHEAD_HOURS * 3600

(* variant: due_at__gte=now instead of due_at__gt=now *)
Matches_closedLower(row, n) ==
  /\ row.status = ACTIVE
  /\ row.due_at # NULL
  /\ row.due_notified_at = NULL
  /\ The(row.due_at) >= n
  /\ The(row.due_at) <= n + NOTIFICATION_LOOKAHEAD_HOURS * 3600
  /\ telegram_user_id[row.user] # NULL

(* variant: the status=ACTIVE condition is missing *)
Matches_anyStatus(row, n) ==
  /\ row.due_at # NULL
  /\ row.due_notified_at = NULL
  /\ The(row.due_at) > n
  /\ The(row.due_at) <= n + NOTIFICATION_LOOKAHEAD_HOURS * 3600
  /\ telegram_user_id[row.user] # NULL

(* variant: the due_notified_at__isnull=True condition is missing *)
Matches_ignoresNotified(row, n) ==
  /\ row.status = ACTIVE
  /\ row.due_at # NULL
  /\ The(row.due_at) > n
  /\ The(row.due_at) <= n + NOTIFICATION_LOOKAHEAD_HOURS * 3600
  /\ telegram_user_id[row.user] # NULL

(* the .filter(...) of notify_upcoming_tasks *)
Matches(row, n) ==
  /\ row.status = ACTIVE
  /\ row.due_at # NULL
  /\ row.due_notified_at = NULL
  /\ The(row.due_at) > n
  /\ The(row.due_at) <= WindowEnd(n)
  /\ telegram_user_id[row.user] # NULL

Init ==
  /\ clock = 0
  /\ \E f \in [Tasks -> 1..Len(TaskInputs)] :
       /\ \A t \in Tasks : t + 1 \in Tasks => f[t] <= f[t + 1]
       /\ task = [t \in Tasks |->
                    [user |-> TaskInputs[f[t]].user,
                     status |-> TaskInputs[f[t]].status,
                     due_at |-> TaskInputs[f[t]].due_at,
                     due_notified_at |-> NULL]]
  /\ pc = [r \in Runs |-> "idle"]
  /\ sel = [r \in Runs |-> {}]
  /\ todo = [r \in Runs |-> {}]
  /\ written = [r \in Runs |-> NoWrites]
  /\ raised = [r \in Runs |-> {}]
  /\ processed_count = [r \in Runs |-> 0]
  /\ msgs = {}
  /\ marks = [t \in Tasks |-> 0]
  /\ aborts = 0
  /\ rolledBack = {}
  /\ prior = "none"
  /\ ModuleLoaded
  /\ wall = 0
  /\ PK_PREFIX = NULL
  /\ AppIdle

(* The clock moves on between any two steps. *)
Tick ==
  /\ clock < MaxClock
  /\ clock' = clock + 1
  /\ prior' = IF prior = "none" THEN "none" ELSE "stale"
  /\ UNCHANGED << task, pc, sel, todo, written, raised, processed_count,
                  msgs, marks, aborts, rolledBack >>
  /\ UNCHANGED << keygenVars, appVars >>

(* tasks.py 37-54: a worker picks the periodic job up, reads the clock,    *)
(* opens the transaction and runs the locking query.                       *)
Select(r) ==
  /\ pc[r] = "idle"
  /\ LET now == clock
         rows == {t \in Tasks : Matches(task[t], now) /\ ~LockedByOther(r, t)}
     IN /\ sel' = [sel EXCEPT ![r] = rows]
        /\ todo' = [todo EXCEPT ![r] = rows]
        /\ rolledBack' = rolledBack \ rows
  /\ pc' = [pc EXCEPT ![r] = "loop"]
  /\ processed_count' = [processed_count EXCEPT ![r] = 0]
  /\ prior' = IF \A q \in Runs \ {r} : ~InTxn(q) THEN "clean" ELSE "stale"
  /\ UNCHANGED << clock, task, written, raised, msgs, marks, aborts >>
  /\ UNCHANGED << keygenVars, appVars >>

(* send_plaintext_notification -> send_telegram_message_task.delay(...):   *)
(* the invocation record the queue receives.  retries is Celery's          *)
(* request.retries, sent counts the sendMessage calls the provider has     *)
(* answered with ok (the messages the chat has received), countdown is the *)
(* delay in seconds the queue holds the invocation back for: none for      *)
(* .delay(), the countdown= argument for a retry.                          *)
NewMessage(t, chat) ==
  [task |-> t, n |-> Enqueued(t) + 1, chat_id |-> chat, retries |-> 0,
   sent |-> 0, state |-> "queued", countdown |-> 0]

(* variant: the mark is written to every task row *)
MarkNotified_everyTask(w, t, accepted) ==
  IF accepted THEN [x \in Tasks |-> Some(clock)] ELSE w

(* variant: the except branch falls through to the mark *)
MarkNotified_always(w, t, accepted) == [w EXCEPT ![t] = Some(clock)]

(* tasks.py 66-77: the mark is reached only when the dispatch call did not *)
(* raise; `continue` in the except branch skips it.  w is the run's        *)
(* uncommitted writes.                                                     *)
MarkNotified(w, t, accepted) ==
  IF accepted THEN [w EXCEPT ![t] = Some(clock)] ELSE w

(* tasks.py 56-78: one iteration of the loop.  `accepted` is whether the   *)
(* queue took the message; when it did not, delay() raises.                *)
Process(r, t) ==
  /\ pc[r] = "loop"
  /\ t \in todo[r]
  /\ todo' = [todo EXCEPT ![r] = @ \ {t}]
  /\ \E accepted \in BOOLEAN :
       LET telegram_chat_id == telegram_user_id[task[t].user] IN
       IF telegram_chat_id = NULL
         THEN UNCHANGED << msgs, written, raised, processed_count, prior >>
         ELSE /\ written' = [written EXCEPT ![r] = MarkNotified(@, t, accepted)]
              /\ IF accepted
                   THEN /\ msgs' = msgs \cup {NewMessage(t, The(telegram_chat_id))}
                        /\ processed_count' = [processed_count EXCEPT ![r] = @ + 1]
                        /\ UNCHANGED << raised, prior >>
                   ELSE /\ raised' = [raised EXCEPT ![r] = @ \cup {t}]
                        /\ prior' = IF prior = "clean" THEN "failed" ELSE prior
                        /\ UNCHANGED << msgs, processed_count >>
  /\ UNCHANGED << clock, task, pc, sel, marks, aborts, rolledBack >>
  /\ UNCHANGED << keygenVars, appVars >>

(* variant: the commit loses the writes of the transaction *)
Committed_losesWrites(r) == task

(* The rows after the transaction of run r commits its writes. *)
Committed(r) ==
  [t \in Tasks |-> IF written[r][t] # NULL
                     THEN [task[t] EXCEPT !.due_notified_at = written[r][t]]
                     ELSE task[t]]

(* tasks.py 40, 80: the loop is over, the atomic block exits and commits,  *)
(* the locks go, the count is logged and the function returns (its locals  *)
(* are gone).                                                              *)
Commit(r) ==
  /\ pc[r] = "loop"
  /\ todo[r] = {}
  /\ task' = Committed(r)
  /\ marks' = [t \in Tasks |->
                 IF task[t].due_notified_at = NULL /\ written[r][t] # NULL
                   THEN marks[t] + 1 ELSE marks[t]]
  /\ pc' = [pc EXCEPT ![r] = "idle"]
  /\ sel' = [sel EXCEPT ![r] = {}]
  /\ written' = [written EXCEPT ![r] = NoWrites]
  /\ raised' = [raised EXCEPT ![r] = {}]
  /\ processed_count' = [processed_count EXCEPT ![r] = 0]
  /\ UNCHANGED << clock, todo, msgs, aborts, rolledBack, prior >>
  /\ UNCHANGED << keygenVars, appVars >>

(* variant: the writes made before the abort survive it *)
RolledBack_keepsWrites(r) == Committed(r)

(* The rows after the transaction of run r is rolled back. *)
RolledBack(r) == task

(* The worker dies inside the atomic block (or an uncaught exception       *)
(* leaves it): the store rolls the transaction back and frees its locks.   *)
(* Messages already handed to the queue are not part of the transaction.   *)
Abort(r) ==
  /\ pc[r] = "loop"
  /\ aborts < MaxAborts
  /\ aborts' = aborts + 1
  /\ task' = RolledBack(r)
  /\ rolledBack' = rolledBack \cup sel[r]
  /\ pc' = [pc EXCEPT ![r] = "idle"]
  /\ sel' = [sel EXCEPT ![r] = {}]
  /\ todo' = [todo EXCEPT ![r] = {}]
  /\ written' = [written EXCEPT ![r] = NoWrites]
  /\ raised' = [raised EXCEPT ![r] = {}]
  /\ processed_count' = [processed_count EXCEPT ![r] = 0]
  /\ prior' = IF prior = "clean" THEN "failed" ELSE prior
  /\ UNCHANGED << clock, msgs, marks >>
  /\ UNCHANGED << keygenVars, appVars >>

ScannerStep ==
  \/ \E r \in Runs : Select(r)
  \/ \E r \in Runs : \E t \in Tasks : Process(r, t)
  \/ \E r \in Runs : Commit(r)

(* Scanner runs that all complete. *)
NextCommit == Tick \/ ScannerStep
SpecCommit == Init /\ [][NextCommit]_vars

(* Scanner runs, some of which die inside the transaction. *)
Next == Tick \/ ScannerStep \/ \E r \in Runs : Abort(r)
Spec == Init /\ [][Next]_vars

(* ---- the dispatcher: services/telegram_notifications.py ---- *)

(* What one POST sendMessage comes back with: a transport failure, or a    *)
(* response with a status code and a body.                                 *)
StatusCodes == {200, 400, 500}

Bodies == {"ok_true", "ok_false", "ok_missing", "not_an_object", "invalid_json"}

AllReplies ==
  [transport : {"timeout", "request_error"}, response : {NULL}]
    \cup [transport : {"response"},
          response : {Some(r) : r \in [status_code : StatusCodes, body : Bodies]}]

(* One reply for each way send_message ends with a provider that keeps to  *)
(* its contract: a JSON object with ok on a 2xx, some body on an error.    *)
ProviderReplies ==
  {reply \in AllReplies :
     \/ reply.transport # "response"
     \/ /\ The(reply.response).status_code = 200
        /\ The(reply.response).body \in {"ok_true", "ok_false", "invalid_json"}
     \/ /\ The(reply.response).status_code \in {400, 500}
        /\ The(reply.response).body = "ok_false"}

(* httpx.TimeoutException is a subclass of httpx.RequestError. *)
Superclasses(exc) ==
  IF exc = "TimeoutException" THEN {"TimeoutException", "RequestError"} ELSE {exc}

(* response.raise_for_status() raises HTTPStatusError unless the status is *)
(* a 2xx.                                                                  *)
is_success(status_code) == 200 <= status_code /\ status_code <= 299

(* response.json(): the parsed body, or ValueError for a body that is not  *)
(* JSON.                                                                   *)
json(body) == IF body = "invalid_json" THEN NULL ELSE Some(body)

(* variant: a body without ok counts as a success *)
get_ok_defaultTrue(response_data) == response_data # "ok_false"

(* response_data.get("ok", False) on the parsed body. *)
get_ok(response_data) == response_data = "ok_true"

(* TelegramNotificationClient.send_message: "return" (of the parsed body)  *)
(* or the exception that leaves it.                                        *)
send_message(reply) ==
  IF reply.transport = "timeout" THEN "TimeoutException"
  ELSE IF reply.transport = "request_error" THEN "RequestError"
  ELSE LET response == The(reply.response) IN
    IF ~is_success(response.status_code) THEN "TelegramNotificationError"
    ELSE IF json(response.body) = NULL THEN "TelegramNotificationError"
    ELSE IF The(json(response.body)) = "not_an_object" THEN "AttributeError"
    ELSE IF ~get_ok(The(json(response.body))) THEN "TelegramNotificationError"
    ELSE "return"

RETRYABLE_EXCEPTIONS == {"RequestError", "TelegramNotificationError"}

(* variant: the delay is not capped *)
_compute_retry_delay_uncapped(retry_index) ==
  BASE_RETRY_DELAY_SECONDS * (2 ^ retry_index)

(* _compute_retry_delay *)
_compute_retry_delay(retry_index) ==
  LET delay == BASE_RETRY_DELAY_SECONDS * (2 ^ retry_index) IN
  IF delay < MAX_RETRY_DELAY_SECONDS THEN delay ELSE MAX_RETRY_DELAY_SECONDS

(* variant: an invocation that has used up its retries starts over *)
Retry_startsOver(m) ==
  LET retry_count == m.retries
      countdown == _compute_retry_delay(retry_count) IN
  IF m.retries < MAX_RETRIES
    THEN [m EXCEPT !.retries = @ + 1, !.countdown = countdown]
    ELSE [m EXCEPT !.retries = 0, !.countdown = 0]

(* the except branch, lines 229-239: countdown is computed from            *)
(* request.retries and handed to self.retry(exc=exc, countdown=countdown). *)
(* With max_retries=MAX_RETRIES that is a new invocation with retries + 1  *)
(* held back for countdown seconds, or, once request.retries has reached   *)
(* max_retries, the exception itself.                                      *)
Retry(m) ==
  LET retry_count == m.retries
      countdown == _compute_retry_delay(retry_count) IN
  IF m.retries < MAX_RETRIES
    THEN [m EXCEPT !.retries = @ + 1, !.countdown = countdown]
    ELSE [m EXCEPT !.state = "failed"]

(* variant: the first successful send is not acknowledged to the queue and *)
(* the invocation is executed once more                                    *)
send_telegram_message_task_redelivered(m, reply) ==
  LET result == send_message(reply) IN
  IF result = "return"
    THEN IF m.sent = 0 THEN [m EXCEPT !.sent = 1]
                       ELSE [m EXCEPT !.sent = @ + 1, !.state = "delivered"]
  ELSE IF Superclasses(result) \cap RETRYABLE_EXCEPTIONS # {} THEN Retry(m)
  ELSE [m EXCEPT !.state = "failed"]

(* send_telegram_message_task, one execution of one queued invocation. *)
send_telegram_message_task(m, reply) ==
  LET result == send_message(reply) IN
  IF result = "return" THEN [m EXCEPT !.sent = @ + 1, !.state = "delivered"]
  ELSE IF Superclasses(result) \cap RETRYABLE_EXCEPTIONS # {} THEN Retry(m)
  ELSE [m EXCEPT !.state = "failed"]

(* A queue worker executes a queued invocation. *)
Attempt(m, reply) ==
  /\ m \in msgs
  /\ m.state = "queued"
  /\ msgs' = (msgs \ {m}) \cup {send_telegram_message_task(m, reply)}
  /\ UNCHANGED << clock, task, pc, sel, todo, written, raised,
                  processed_count, marks, aborts, rolledBack, prior >>
  /\ UNCHANGED << keygenVars, appVars >>

DispatcherStep == \E m \in msgs : \E reply \in ProviderReplies : Attempt(m, reply)

(* The same for any reply at all. *)
DispatcherStepAnyReply ==
  \E m \in msgs : \E reply \in AllReplies : Attempt(m, reply)

(* Scanner runs that complete, and the queue workers delivering. *)
NextDeliver == Tick \/ ScannerStep \/ DispatcherStep
SpecDeliver == Init /\ [][NextDeliver]_vars

(* The same at one reading of the clock: what the queue workers do with a  *)
(* message does not depend on the time.                                    *)
NextRetry == ScannerStep \/ DispatcherStep
SpecRetry == Init /\ [][NextRetry]_vars

(* send_plaintext_notification called for a task's owner: the invocation  *)
(* goes to the queue.                                                      *)
Submit(t) ==
  /\ Cardinality(msgs) < MaxMessages
  /\ telegram_user_id[task[t].user] # NULL
  /\ msgs' = msgs \cup {NewMessage(t, The(telegram_user_id[task[t].user]))}
  /\ UNCHANGED << clock, task, pc, sel, todo, written, raised,
                  processed_count, marks, aborts, rolledBack, prior >>
  /\ UNCHANGED << keygenVars, appVars >>

(* The queue workers under every reply, on invocations submitted one by    *)
(* one; no scanner run is in progress.                                     *)
InitDispatch ==
  /\ clock = 0
  /\ task = [t \in Tasks |-> [user |-> TaskInputs[1].user,
                              status |-> TaskInputs[1].status,
                              due_at |-> TaskInputs[1].due_at,
                              due_notified_at |-> NULL]]
  /\ pc = [r \in Runs |-> "idle"]
  /\ sel = [r \in Runs |-> {}]
  /\ todo = [r \in Runs |-> {}]
  /\ written = [r \in Runs |-> NoWrites]
  /\ raised = [r \in Runs |-> {}]
  /\ processed_count = [r \in Runs |-> 0]
  /\ msgs = {}
  /\ marks = [t \in Tasks |-> 0]
  /\ aborts = 0
  /\ rolledBack = {}
  /\ prior = "none"
  /\ ModuleLoaded
  /\ wall = 0
  /\ PK_PREFIX = NULL
  /\ AppIdle
NextDispatch == (\E t \in Tasks : Submit(t)) \/ DispatcherStepAnyReply
SpecDispatch == InitDispatch /\ [][NextDispatch]_vars

(* SpecDispatch with queue workers that keep executing what is queued: an  *)
(* invocation held back for its countdown is executed when the countdown   *)
(* has run out.                                                            *)
SpecDispatchFair == SpecDispatch /\ WF_vars(DispatcherStepAnyReply)

(* SpecDeliver with the scheduling the deployment gives: the periodic      *)
(* trigger keeps starting runs, a started run and a queued invocation keep *)
(* being executed.  The clock is not forced to move.                       *)
SpecDeliverFair ==
  /\ SpecDeliver
  /\ \A r \in Runs : WF_vars(Select(r)) /\ WF_vars(Commit(r))
  /\ \A r \in Runs : WF_vars(\E t \in Tasks : Process(r, t))
  /\ WF_vars(DispatcherStep)

(* ---- the query as the Task model class lets it run ---- *)

(* Spec, SpecCommit and SpecDeliver run the query against task rows that   *)
(* carry the due_notified_at column the scanner reads and writes.  SpecOrm *)
(* resolves the lookups against the fields the Task class declares.        *)

(* todo/models.py: the fields of class Task *)
TaskModelFields ==
  {"id", "user", "title", "description", "created_at", "due_at", "status",
   "categories"}

(* tasks.py 45-50: the Task fields the keywords of .filter(...) start with *)
FilterFields == {"status", "due_at", "due_notified_at", "user"}

(* QuerySet.filter() raises FieldError for a keyword that names no field   *)
(* of the model.                                                           *)
FieldError == ~(FilterFields \subseteq TaskModelFields)

(* tasks.py 37-52 on the declared model: filter() raises before the query  *)
(* is sent; the exception leaves the atomic block and the task function.   *)
SelectOrm(r) ==
  /\ pc[r] = "idle"
  /\ FieldError
  /\ pc' = [pc EXCEPT ![r] = "failed"]
  /\ UNCHANGED << clock, task, sel, todo, written, raised, processed_count,
                  msgs, marks, aborts, rolledBack, prior >>
  /\ UNCHANGED << keygenVars, appVars >>

(* The failed run is over; the worker is free for the next trigger. *)
Restart(r) ==
  /\ pc[r] = "failed"
  /\ pc' = [pc EXCEPT ![r] = "idle"]
  /\ UNCHANGED << clock, task, sel, todo, written, raised, processed_count,
                  msgs, marks, aborts, rolledBack, prior >>
  /\ UNCHANGED << keygenVars, appVars >>

NextOrm ==
  \/ Tick
  \/ \E r \in Runs : SelectOrm(r)
  \/ \E r \in Runs : Restart(r)
SpecOrm == Init /\ [][NextOrm]_vars

(* ---- the key generator: services/pk_keygen.py ---- *)

(* "0123456789ABCDEFGHIJKLMNOPQRSTUVWXYZabcdefghijklmnopqrstuvwxyz" *)
_BASE62_ALPHABET ==
  [i \in 1..62 |-> IF i <= 10 THEN 47 + i ELSE IF i <= 36 THEN 54 + i ELSE 60 + i]
_BASE == Len(_BASE62_ALPHABET)

(* ch in _BASE62_ALPHABET, for a single character *)
IsBase62(ch) == \E i \in 1.._BASE : _BASE62_ALPHABET[i] = ch

(* The while loop of _b62_encode with the final reverse: the digits of     *)
(* num, most significant first.                                            *)
RECURSIVE Digits(_)
Digits(num) ==
  IF num > 0
    THEN Append(Digits(num \div _BASE), _BASE62_ALPHABET[(num % _BASE) + 1])
    ELSE << >>

(* the digits of num, least significant first *)
RECURSIVE Digits_notReversed(_)
Digits_notReversed(num) ==
  IF num > 0
    THEN << _BASE62_ALPHABET[(num % _BASE) + 1] >> \o Digits_notReversed(num \div _BASE)
    ELSE << >>

(* variant: _b62_encode without the reverse *)
_b62_encode_notReversed(num) ==
  IF num = 0 THEN << _BASE62_ALPHABET[1] >> ELSE Digits_notReversed(num)

(* _b62_encode 36-37: if num < 0: raise ValueError *)
_b62_encode_raises(num) == num < 0

(* _b62_encode past that check: for the non-negative numbers, those        *)
(* generate_pk passes to it among them.                                    *)
_b62_encode(num) == IF num = 0 THEN << _BASE62_ALPHABET[1] >> ELSE Digits(num)

(* str.strip(): leading and trailing blanks, tabs and newlines go. *)
Whitespace == {9, 10, 13, 32}
RECURSIVE strip(_)
strip(raw) ==
  IF raw = << >> THEN raw
  ELSE IF raw[1] \in Whitespace THEN strip(Tail(raw))
  ELSE IF raw[Len(raw)] \in Whitespace THEN strip(SubSeq(raw, 1, Len(raw) - 1))
  ELSE raw

(* os.getenv("PK_PREFIX", "ABC") *)
getenv_PK_PREFIX == IF PK_PREFIX = NULL THEN << 65, 66, 67 >> ELSE The(PK_PREFIX)

(* variant: the [:3] slice is missing *)
_env_prefix_unsliced ==
  SelectSeq(strip(getenv_PK_PREFIX), IsBase62)

(* _env_prefix(): the first three base62 characters of the variable. *)
_env_prefix ==
  LET filtered == SelectSeq(strip(getenv_PK_PREFIX), IsBase62)
  IN SubSeq(filtered, 1, IF Len(filtered) < 3 THEN Len(filtered) ELSE 3)

(* variant: only the length of kind is checked *)
KindError_lengthOnly(kind) == Len(kind) # 1

(* generate_pk 87-90: the two checks that raise ValueError. *)
KindError(kind) ==
  IF kind = << >> \/ Len(kind) # 1 THEN TRUE ELSE ~IsBase62(kind[1])

(* generate_pk 105: f"{prefix}{kind}{ts62}{cnt62}" *)
FormatKey(prefix, kind, ts62, cnt62) == prefix \o kind \o ts62 \o cnt62

(* What callers pass as kind: "T" (todo/models.py), and the malformed "",  *)
(* "TC" and "-".                                                           *)
ValidKinds == { << 84 >> }
Kinds == ValidKinds \cup { << >>, << 84, 67 >>, << 45 >> }

(* Values of PK_PREFIX: unset, " a-b " and a string of 24 letters. *)
PrefixInputs ==
  { NULL, Some(<< 32, 97, 45, 98, 32 >>), Some([i \in 1..24 |-> 64 + i]) }

(* Readings of the wall clock, around the first time whose base62 form     *)
(* takes one more digit.                                                   *)
Readings == (_BASE - MaxSpan) .. (_BASE + MaxSpan - 1)

(* The module state a process is in when the observed calls begin: as      *)
(* imported, or after earlier calls in the present millisecond.            *)
StartCounters == {0, _BASE - 2}
KeygenStart(prefixes) ==
  /\ clock = 0
  /\ task = [t \in Tasks |-> [user |-> TaskInputs[1].user,
                              status |-> TaskInputs[1].status,
                              due_at |-> TaskInputs[1].due_at,
                              due_notified_at |-> NULL]]
  /\ pc = [r \in Runs |-> "idle"]
  /\ sel = [r \in Runs |-> {}]
  /\ todo = [r \in Runs |-> {}]
  /\ written = [r \in Runs |-> NoWrites]
  /\ raised = [r \in Runs |-> {}]
  /\ processed_count = [r \in Runs |-> 0]
  /\ msgs = {}
  /\ marks = [t \in Tasks |-> 0]
  /\ aborts = 0
  /\ rolledBack = {}
  /\ prior = "none"
  /\ _lock = NULL
  /\ kpc = [th \in Threads |-> "idle"]
  /\ call = [th \in Threads |-> NoCall]
  /\ issued = << >>
  /\ wall \in Readings
  /\ PK_PREFIX \in prefixes
  /\ \/ _last_ms = 0 /\ _counter = 0
     \/ _last_ms = wall /\ _counter \in StartCounters
  /\ AppIdle

(* The wall clock moves on. *)
ClockForward ==
  /\ wall + 1 \in Readings
  /\ wall' = wall + 1
  /\ UNCHANGED << PK_PREFIX, _last_ms, _counter, _lock, kpc, call, issued >>
  /\ UNCHANGED << scannerVars, appVars >>

(* The wall clock is set back (time.time() is not monotonic: NTP step,     *)
(* manual adjustment).                                                     *)
ClockSetBack ==
  /\ wall - 1 \in Readings
  /\ wall' = wall - 1
  /\ UNCHANGED << PK_PREFIX, _last_ms, _counter, _lock, kpc, call, issued >>
  /\ UNCHANGED << scannerVars, appVars >>

Busy == {th \in Threads : kpc[th] # "idle"}

(* generate_pk 87-92: thread th calls generate_pk(kind).  A malformed kind *)
(* raises ValueError; otherwise the thread arrives at `with _lock`.        *)
Call(th, kind) ==
  /\ kpc[th] = "idle"
  /\ IF KindError(kind)
       THEN /\ call' = [call EXCEPT ![th] =
                          [kind |-> kind, now_ms |-> NULL, raised |-> TRUE]]
            /\ UNCHANGED kpc
       ELSE /\ Len(issued) + Cardinality(Busy) < MaxCalls
            /\ call' = [call EXCEPT ![th] =
                          [kind |-> kind, now_ms |-> NULL, raised |-> FALSE]]
            /\ kpc' = [kpc EXCEPT ![th] = "lock"]
  /\ UNCHANGED << wall, PK_PREFIX, _last_ms, _counter, _lock, issued >>
  /\ UNCHANGED << scannerVars, appVars >>

(* variant: the body runs without taking the lock *)
CanAcquire_always(th) == TRUE

(* with _lock: a thread enters when no thread holds the lock. *)
CanAcquire(th) == _lock = NULL

(* generate_pk 94-96: the thread takes the lock and reads the clock. *)
Acquire(th) ==
  /\ kpc[th] = "lock"
  /\ CanAcquire(th)
  /\ _lock' = Some(th)
  /\ call' = [call EXCEPT ![th].now_ms = Some(wall)]
  /\ kpc' = [kpc EXCEPT ![th] = "update"]
  /\ UNCHANGED << wall, PK_PREFIX, _last_ms, _counter, issued >>
  /\ UNCHANGED << scannerVars, appVars >>

(* variant: the counter goes on counting when the millisecond changes *)
Update_neverResets(th) ==
  /\ kpc[th] = "update"
  /\ LET now_ms == The(call[th].now_ms) IN
     /\ _counter' = _counter + 1
     /\ _last_ms' = now_ms
  /\ kpc' = [kpc EXCEPT ![th] = "encode"]
  /\ UNCHANGED << wall, PK_PREFIX, _lock, call, issued >>
  /\ UNCHANGED << scannerVars, appVars >>

(* generate_pk 97-101 *)
Update(th) ==
  /\ kpc[th] = "update"
  /\ LET now_ms == The(call[th].now_ms) IN
     IF now_ms = _last_ms
       THEN /\ _counter' = _counter + 1
            /\ UNCHANGED _last_ms
       ELSE /\ _last_ms' = now_ms
            /\ _counter' = 0
  /\ kpc' = [kpc EXCEPT ![th] = "encode"]
  /\ UNCHANGED << wall, PK_PREFIX, _lock, call, issued >>
  /\ UNCHANGED << scannerVars, appVars >>

(* generate_pk 102-106: the two encodings (cnt62 from the module's         *)
(* _counter), the lock is released, the key is put together and returned.  *)
Return(th) ==
  /\ kpc[th] = "encode"
  /\ LET now_ms == The(call[th].now_ms)
         ts62 == _b62_encode(now_ms)
         cnt62 == _b62_encode(_counter)
         key == FormatKey(_env_prefix, call[th].kind, ts62, cnt62)
     IN issued' = Append(issued,
                         [thread |-> th, kind |-> call[th].kind, ms |-> now_ms,
                          counter |-> _counter, cnt62 |-> cnt62, key |-> key])
  /\ _lock' = NULL
  /\ kpc' = [kpc EXCEPT ![th] = "idle"]
  /\ call' = [call EXCEPT ![th] = NoCall]
  /\ UNCHANGED << wall, PK_PREFIX, _last_ms, _counter >>
  /\ UNCHANGED << scannerVars, appVars >>

(* The threads of one process calling generate_pk with a well-formed kind. *)
KeygenStep ==
  \/ \E th \in Threads : \E kind \in ValidKinds : Call(th, kind)
  \/ \E th \in Threads : Acquire(th)
  \/ \E th \in Threads : Update(th)
  \/ \E th \in Threads : Return(th)

(* PK_PREFIX unset, the wall clock only moves forward. *)
InitKeygen == KeygenStart({NULL})
NextKeygenMonotonic == ClockForward \/ KeygenStep
SpecKeygenMonotonic == InitKeygen /\ [][NextKeygenMonotonic]_vars

(* The same on a host whose wall clock may also be set back. *)
NextKeygen == ClockForward \/ ClockSetBack \/ KeygenStep
SpecKeygen == InitKeygen /\ [][NextKeygen]_vars

(* One thread calling generate_pk with any kind, under any PK_PREFIX,      *)
(* while the wall clock moves forward.                                     *)
InitKeygenInputs == KeygenStart(PrefixInputs)
NextKeygenInputs ==
  \/ ClockForward
  \/ \E kind \in Kinds : Call(1, kind)
  \/ Acquire(1)
  \/ Update(1)
  \/ Return(1)
SpecKeygenInputs == InitKeygenInputs /\ [][NextKeygenInputs]_vars

(* ---- the category table: todo/models.py, todo/signals.py ---- *)

(* The scanner and the key generator at rest: what the specifications of   *)
(* the other components start from and leave alone.                        *)
ScannerIdle ==
  /\ clock = 0
  /\ task = [t \in Tasks |-> [user |-> TaskInputs[1].user,
                              status |-> TaskInputs[1].status,
                              due_at |-> TaskInputs[1].due_at,
                              due_notified_at |-> NULL]]
  /\ pc = [r \in Runs |-> "idle"]
  /\ sel = [r \in Runs |-> {}]
  /\ todo = [r \in Runs |-> {}]
  /\ written = [r \in Runs |-> NoWrites]
  /\ raised = [r \in Runs |-> {}]
  /\ processed_count = [r \in Runs |-> 0]
  /\ msgs = {}
  /\ marks = [t \in Tasks |-> 0]
  /\ aborts = 0
  /\ rolledBack = {}
  /\ prior = "none"

KeygenIdle == ModuleLoaded /\ wall = 0 /\ PK_PREFIX = NULL

(* The first two of the four preset names ("Дом", "Работа", transliterated) *)
PRESET_CATEGORIES == << "Dom", "Rabota" >>

(* Names a user or an administrator types: a preset name, and one that     *)
(* differs from it in case only.                                           *)
CategoryNames == {"Dom", "dom", "Rabota"}

(* services/slugify.py: NFKC, then django slugify(allow_unicode=True),     *)
(* which lowercases; on the names above that is the whole effect.          *)
slugify_unicode(value) ==
  CASE value = "Dom" -> "dom"
    [] value = "Rabota" -> "rabota"
    [] OTHER -> value

Slugs == {slugify_unicode(n) : n \in CategoryNames}

(* Users who own categories. *)
CategoryOwners == {"u1", "u2"}

(* The id of the next row.  Ids come from generate_pk("C"); here they are  *)
(* distinct by construction.                                               *)
NextCategoryId == Cardinality(categories) + 1

(* UniqueConstraint(fields=["owner", "slug"]) as the store checks it on an *)
(* INSERT: a row with the same owner and slug exists.  Django passes no    *)
(* nulls_distinct, the store's default applies: where NULLs are distinct a *)
(* row with a NULL owner conflicts with no row.                            *)
uq_category_owner_slug(row) ==
  \E c \in categories :
    /\ c.slug = row.slug
    /\ c.owner = row.owner
    /\ row.owner # NULL \/ ~nulls_distinct

(* Category.save() of a new object, up to the INSERT: the row it sends. *)
Category_save(owner, name, slug) ==
  [id |-> NextCategoryId, owner |-> owner, name |-> name,
   slug |-> IF slug = "" THEN slugify_unicode(name) ELSE slug]

(* The INSERT: the row is stored, or IntegrityError. *)
InsertCategory(row) ==
  IF uq_category_owner_slug(row)
    THEN /\ categories' = categories
         /\ category_result' = "IntegrityError"
    ELSE /\ categories' = categories \cup {row}
         /\ category_result' = "created"

notCategoryVars == << scannerVars, keygenVars, userVars, crudVars, rateVars, encodeVars, restVars >>

(* CategorySerializer.create: Category.objects.create(owner=user, name=..) *)
(* slug is read-only in the API and arrives empty.                         *)
CreateCategory(user, name) ==
  /\ Cardinality(categories) < MaxCategories
  /\ InsertCategory(Category_save(Some(user), name, ""))
  /\ UNCHANGED << seeding, nulls_distinct >>
  /\ UNCHANGED notCategoryVars

(* CategoryAdmin's add form: owner (may be left empty), name and slug as   *)
(* typed.  The form's constraint validation skips a constraint one of      *)
(* whose fields is None and otherwise agrees with the store.               *)
AdminAddCategory(owner, name, slug) ==
  /\ Cardinality(categories) < MaxCategories
  /\ InsertCategory(Category_save(owner, name, slug))
  /\ UNCHANGED << seeding, nulls_distinct >>
  /\ UNCHANGED notCategoryVars

(* post_migrate reaches ensure_preset_categories with sender "todo". *)
Migrate(p) ==
  /\ seeding[p].pc \in {"idle", "done", "failed"}
  /\ seeding' = [seeding EXCEPT ![p] = [pc |-> "get", i |-> 1]]
  /\ UNCHANGED << categories, nulls_distinct, category_result >>
  /\ UNCHANGED notCategoryVars

(* The loop moves to the next preset name, or ends. *)
NextPreset(p) ==
  IF seeding[p].i < Len(PRESET_CATEGORIES)
    THEN [seeding EXCEPT ![p] = [pc |-> "get", i |-> seeding[p].i + 1]]
    ELSE [seeding EXCEPT ![p] = [pc |-> "done", i |-> 1]]

(* signals.py 42-44: the row found gets the preset's name. *)
Renamed(obj, name) ==
  IF obj.name # name
    THEN (categories \ {obj}) \cup {[obj EXCEPT !.name = name]}
    ELSE categories

(* variant: the lookup finds no row *)
SeedGet_neverFinds(p) ==
  /\ seeding[p].pc = "get"
  /\ seeding' = [seeding EXCEPT ![p].pc = "create"]
  /\ UNCHANGED << categories, category_result, nulls_distinct >>
  /\ UNCHANGED notCategoryVars

(* get_or_create, the lookup: get(owner=None, slug=slug). *)
SeedGet(p) ==
  /\ seeding[p].pc = "get"
  /\ LET name == PRESET_CATEGORIES[seeding[p].i]
         slug == slugify_unicode(name)
         found == {c \in categories : c.owner = NULL /\ c.slug = slug}
     IN
     IF found = {}
       THEN /\ seeding' = [seeding EXCEPT ![p].pc = "create"]
            /\ UNCHANGED << categories, category_result >>
     ELSE IF Cardinality(found) > 1
       THEN /\ seeding' = [seeding EXCEPT ![p] = [pc |-> "failed", i |-> 1]]
            /\ category_result' = "MultipleObjectsReturned"
            /\ UNCHANGED categories
     ELSE /\ categories' = Renamed(The(found), name)
          /\ category_result' = "found"
          /\ seeding' = NextPreset(p)
  /\ UNCHANGED nulls_distinct
  /\ UNCHANGED notCategoryVars

(* get_or_create, the creation after DoesNotExist: the INSERT with the     *)
(* defaults, or on IntegrityError the lookup once more.                    *)
SeedCreate(p) ==
  /\ seeding[p].pc = "create"
  /\ Cardinality(categories) < MaxCategories
  /\ LET name == PRESET_CATEGORIES[seeding[p].i]
         slug == slugify_unicode(name)
         row == [id |-> NextCategoryId, owner |-> NULL, name |-> name,
                 slug |-> slug]
         found == {c \in categories : c.owner = NULL /\ c.slug = slug}
     IN
     IF uq_category_owner_slug(row)
       THEN /\ categories' = Renamed(The(found), name)
            /\ category_result' = "found"
       ELSE /\ categories' = categories \cup {row}
            /\ category_result' = "created"
  /\ seeding' = NextPreset(p)
  /\ UNCHANGED nulls_distinct
  /\ UNCHANGED notCategoryVars

InitCategories ==
  /\ ScannerIdle
  /\ KeygenIdle
  /\ categories = {}
  /\ seeding = [p \in Seeders |-> [pc |-> "idle", i |-> 1]]
  /\ nulls_distinct \in BOOLEAN
  /\ category_result = "none"
  /\ NoUsers
  /\ NoRequest
  /\ NoHits
  /\ NoEncodeCall
  /\ RestIdle

NextCategories ==
  \/ \E u \in CategoryOwners : \E n \in CategoryNames : CreateCategory(u, n)
  \/ \E o \in {NULL} \cup {Some(u) : u \in CategoryOwners} :
       \E n \in CategoryNames : \E sl \in Slugs : AdminAddCategory(o, n, sl)
  \/ \E p \in Seeders : Migrate(p)
  \/ \E p \in Seeders : SeedGet(p)
  \/ \E p \in Seeders : SeedCreate(p)
SpecCategories == InitCategories /\ [][NextCategories]_vars

(* No ensure_preset_categories run is in progress. *)
NoSeeding == \A q \in Seeders : seeding[q].pc \in {"idle", "done", "failed"}

(* migrate is run again after the run before it has ended. *)
MigrateInSequence(p) == NoSeeding /\ Migrate(p)

(* A user adds a category through the API; the table keeps room for the    *)
(* presets.                                                                *)
UserAddsCategory(user, name) ==
  /\ Cardinality({c \in categories : c.owner # NULL})
       < MaxCategories - Len(PRESET_CATEGORIES)
  /\ CreateCategory(user, name)

(* ensure_preset_categories run any number of times, one run after the     *)
(* other, on a store that users add categories to.                         *)
NextSeedInSequence ==
  \/ \E p \in Seeders : MigrateInSequence(p)
  \/ \E p \in Seeders : SeedGet(p)
  \/ \E p \in Seeders : SeedCreate(p)
  \/ \E u \in CategoryOwners : \E n \in CategoryNames : UserAddsCategory(u, n)
SpecSeedInSequence == InitCategories /\ [][NextSeedInSequence]_vars

(* ---- the user table: users/models.py, users/views.py ---- *)

(* What callers pass for a username (None, the empty string, two names)    *)
(* and for a Telegram id (None, two ids).                                  *)
UsernameInputs == {NULL, Some(""), Some("alice"), Some("bob")}
TelegramIdInputs == {NULL, Some(101), Some(102)}

(* Python's truth value of an optional string. *)
Truthy(opt) == opt # NULL /\ The(opt) # ""

(* Ids come from generate_pk("U"); here they are distinct by construction. *)
NextUserId == Cardinality(user_rows) + 1

(* variant: the store does not check user_username_or_tg_required *)
user_username_or_tg_required_unchecked(row) == TRUE

(* CheckConstraint Q(username__isnull=False) | Q(telegram_user_id__isnull=False) *)
user_username_or_tg_required(row) ==
  row.username # NULL \/ row.telegram_user_id # NULL

(* unique=True on username and on telegram_user_id; NULLs do not conflict. *)
UserUniqueViolated(row) ==
  \E u \in user_rows :
    /\ u.id # row.id
    /\ \/ row.username # NULL /\ u.username = row.username
       \/ row.telegram_user_id # NULL /\ u.telegram_user_id = row.telegram_user_id

(* What the store answers to the INSERT or UPDATE of a row. *)
UserWriteError(row) ==
  IF ~user_username_or_tg_required(row) THEN "user_username_or_tg_required"
  ELSE IF UserUniqueViolated(row) THEN "IntegrityError"
  ELSE "none"

notUserVars == << scannerVars, keygenVars, categoryVars, crudVars, rateVars, encodeVars, restVars >>

(* User.save() of a new object: the INSERT, stored or rejected. *)
User_save(username, tg) ==
  LET row == [id |-> NextUserId, username |-> username,
              telegram_user_id |-> tg] IN
  IF UserWriteError(row) = "none"
    THEN /\ user_rows' = user_rows \cup {row}
         /\ user_result' = "created"
    ELSE /\ user_rows' = user_rows
         /\ user_result' = UserWriteError(row)

(* A User built and saved directly (shell, fixtures, createsuperuser's     *)
(* model call): any pair of fields.                                        *)
SaveUser(username, tg) ==
  /\ Cardinality(user_rows) < MaxUsers
  /\ User_save(username, tg)
  /\ UNCHANGED << pending_username, register >>
  /\ UNCHANGED notUserVars

(* UserManager._create_user through create_user / create_superuser. *)
create_user(username, tg) ==
  /\ Cardinality(user_rows) < MaxUsers
  /\ IF ~Truthy(username)
       THEN /\ user_result' = "ValueError"
            /\ UNCHANGED user_rows
       ELSE User_save(username, tg)
  /\ UNCHANGED << pending_username, register >>
  /\ UNCHANGED notUserVars

(* get_or_create(telegram_user_id=tg_user_id, defaults={.., "username":    *)
(* None}): the row found (None looks up IS NULL), or the INSERT; after an  *)
(* IntegrityError the lookup once more, and the error if it finds nothing. *)
get_or_create(tg_user_id) ==
  LET found == {u \in user_rows : u.telegram_user_id = tg_user_id} IN
  IF Cardinality(found) > 1
    THEN /\ user_result' = "MultipleObjectsReturned"
         /\ UNCHANGED user_rows
  ELSE IF found # {}
    THEN /\ user_result' = "found"
         /\ UNCHANGED user_rows
  ELSE User_save(NULL, tg_user_id)

(* UserManager.create_from_telegram called with any argument. *)
create_from_telegram(tg_user_id) ==
  /\ Cardinality(user_rows) < MaxUsers
  /\ get_or_create(tg_user_id)
  /\ UNCHANGED << pending_username, register >>
  /\ UNCHANGED notUserVars

(* The bot registration view, lines 48-55: tg_id has passed min_value=1;   *)
(* no user with that id, so create_from_telegram; a truthy username is     *)
(* then to be saved on a user that has none.                               *)
BotRegister(tg_id, username) ==
  /\ Cardinality(user_rows) < MaxUsers
  /\ tg_id # NULL
  /\ {u \in user_rows : u.telegram_user_id = tg_id} = {}
  /\ get_or_create(tg_id)
  /\ pending_username' =
       IF user_result' = "created" /\ Truthy(username)
         THEN pending_username \cup {[id |-> NextUserId, username |-> username]}
         ELSE pending_username
  /\ UNCHANGED register
  /\ UNCHANGED notUserVars

(* lines 56-58: user.username = username; user.save(update_fields=...) *)
BotRegisterUsername(req) ==
  /\ req \in pending_username
  /\ pending_username' = pending_username \ {req}
  /\ LET old == CHOOSE u \in user_rows : u.id = req.id
         row == [old EXCEPT !.username = req.username] IN
     IF UserWriteError(row) = "none"
       THEN /\ user_rows' = (user_rows \ {old}) \cup {row}
            /\ user_result' = "updated"
       ELSE /\ user_rows' = user_rows
            /\ user_result' = UserWriteError(row)
  /\ UNCHANGED register
  /\ UNCHANGED notUserVars

InitUsers ==
  /\ ScannerIdle
  /\ KeygenIdle
  /\ NoCategories
  /\ NoUsers
  /\ NoRequest
  /\ NoHits
  /\ NoEncodeCall
  /\ RestIdle

NextUsers ==
  \/ \E n \in UsernameInputs : \E tg \in TelegramIdInputs : SaveUser(n, tg)
  \/ \E n \in UsernameInputs : \E tg \in TelegramIdInputs : create_user(n, tg)
  \/ \E tg \in TelegramIdInputs : create_from_telegram(tg)
  \/ \E tg \in TelegramIdInputs : \E n \in UsernameInputs : BotRegister(tg, n)
  \/ \E req \in pending_username : BotRegisterUsername(req)
SpecUsers == InitUsers /\ [][NextUsers]_vars

(* ---- BotRegisterView.post, request by request ---- *)

(* Each request is served by its own worker; the statements of post run in *)
(* order, and the store is read or written once per step.  register[p].user *)
(* is the User object the request holds, as it was loaded.                 *)
RegisterUsernames == {NULL, Some("alice"), Some("bob")}
RegisterTelegramIds == {101, 102}

(* The rows a lookup by telegram_user_id finds. *)
ByTelegramId(tg_id) == {u \in user_rows : u.telegram_user_id = Some(tg_id)}

(* lines 48-51: the request's data has passed BotRegisterSerializer. *)
RegisterStart(p, tg_id, username) ==
  /\ register[p].pc = "idle"
  /\ register' = [register EXCEPT ![p].pc = "filter", ![p].tg_id = Some(tg_id),
                                   ![p].username = username]
  /\ UNCHANGED << user_rows, pending_username, user_result >>
  /\ UNCHANGED notUserVars

(* lines 53-55 and 62-64: filter(telegram_user_id=tg_id).first(); with a   *)
(* user found the answer is is_new = false, 200.                           *)
RegisterFilter(p) ==
  LET found == ByTelegramId(The(register[p].tg_id)) IN
  /\ register[p].pc = "filter"
  /\ IF found # {}
       THEN register' = [register EXCEPT ![p].pc = "done",
                                        ![p].user = found,
                                        ![p].is_new = FALSE,
                                        ![p].status = 200]
       ELSE register' = [register EXCEPT ![p].pc = "get"]
  /\ UNCHANGED << user_rows, pending_username, user_result >>
  /\ UNCHANGED notUserVars

(* create_from_telegram, get_or_create: its get. *)
RegisterGet(p) ==
  LET found == ByTelegramId(The(register[p].tg_id)) IN
  /\ register[p].pc = "get"
  /\ IF found # {}
       THEN register' = [register EXCEPT ![p].pc = "username", ![p].user = found]
       ELSE register' = [register EXCEPT ![p].pc = "insert"]
  /\ UNCHANGED << user_rows, pending_username, user_result >>
  /\ UNCHANGED notUserVars

(* get_or_create: its create with the defaults; after an IntegrityError    *)
(* the get once more.                                                      *)
RegisterInsert(p) ==
  LET tg_id == The(register[p].tg_id)
      row == [id |-> NextUserId, username |-> NULL,
              telegram_user_id |-> Some(tg_id)] IN
  /\ register[p].pc = "insert"
  /\ IF UserWriteError(row) = "none"
       THEN /\ user_rows' = user_rows \cup {row}
            /\ user_result' = "created"
            /\ register' = [register EXCEPT ![p].pc = "username",
                                            ![p].user = Some(row)]
       ELSE /\ user_rows' = user_rows
            /\ user_result' = UserWriteError(row)
            /\ register' = [register EXCEPT ![p].pc = "username",
                                            ![p].user = ByTelegramId(tg_id)]
  /\ UNCHANGED pending_username
  /\ UNCHANGED notUserVars

(* lines 56-64: a truthy username is saved on a user object that has none  *)
(* (the UPDATE of that one column); is_new = True, 201.  An IntegrityError *)
(* from the save leaves the view, and the request is answered with 500.    *)
RegisterUsername(p) ==
  LET user == The(register[p].user)
      username == register[p].username
      old == CHOOSE u \in user_rows : u.id = user.id
      row == [old EXCEPT !.username = username] IN
  /\ register[p].pc = "username"
  /\ IF Truthy(username) /\ ~Truthy(user.username)
       THEN IF UserWriteError(row) = "none"
              THEN /\ user_rows' = (user_rows \ {old}) \cup {row}
                   /\ user_result' = "updated"
                   /\ register' = [register EXCEPT ![p].pc = "done",
                                                   ![p].is_new = TRUE,
                                                   ![p].status = 201]
              ELSE /\ user_rows' = user_rows
                   /\ user_result' = UserWriteError(row)
                   /\ register' = [register EXCEPT ![p].pc = "done",
                                                   ![p].status = 500]
       ELSE /\ register' = [register EXCEPT ![p].pc = "done",
                                            ![p].is_new = TRUE,
                                            ![p].status = 201]
            /\ UNCHANGED << user_rows, user_result >>
  /\ UNCHANGED pending_username
  /\ UNCHANGED notUserVars

InitRegister == InitUsers

NextRegister ==
  \/ \E p \in Registrations : \E tg_id \in RegisterTelegramIds :
       \E username \in RegisterUsernames : RegisterStart(p, tg_id, username)
  \/ \E p \in Registrations : RegisterFilter(p)
  \/ \E p \in Registrations : RegisterGet(p)
  \/ \E p \in Registrations : RegisterInsert(p)
  \/ \E p \in Registrations : RegisterUsername(p)
SpecRegister == InitRegister /\ [][NextRegister]_vars

(* ---- the task API: todo/views.py, todo/serializers.py ---- *)

(* validated_data of a PUT/PATCH: per writable field the new value, or     *)
(* NULL for a field the request does not carry.  status has passed         *)
(* validate_status.  title, description and categories do not touch the    *)
(* columns modelled here.                                                  *)
Patches ==
  [status : {NULL, Some("active"), Some("done")},
   due_at : {NULL, Some(NULL), Some(Some(86400))}]

(* UpdateModelMixin.update -> get_object(): the view loads the task with a *)
(* plain SELECT, which reads committed rows and waits for no lock.         *)
ApiGetObject(t) ==
  /\ instance = NULL
  /\ requests < MaxRequests
  /\ requests' = requests + 1
  /\ instance' = Some([t |-> t, row |-> task[t]])
  /\ UNCHANGED << scannerVars, keygenVars, categoryVars, userVars, rateVars, encodeVars, restVars >>

(* ModelSerializer.update: setattr for each validated field. *)
Patched(row, patch) ==
  [row EXCEPT !.status = IF patch.status = NULL THEN @ ELSE The(patch.status),
              !.due_at = IF patch.due_at = NULL THEN @ ELSE The(patch.due_at)]

(* TaskSerializer.update: super().update(instance, validated_data) ends in *)
(* instance.save() without update_fields, an UPDATE of every column from   *)
(* the loaded object.  The UPDATE waits while a scanner transaction holds  *)
(* the row.                                                                *)
ApiUpdate(patch) ==
  /\ instance # NULL
  /\ LET t == The(instance).t IN
     /\ \A q \in Runs : t \notin LockedTasks(q)
     /\ task' = [task EXCEPT ![t] = Patched(The(instance).row, patch)]
  /\ instance' = NULL
  /\ UNCHANGED requests
  /\ UNCHANGED << clock, pc, sel, todo, written, raised, processed_count,
                  msgs, marks, aborts, rolledBack, prior >>
  /\ UNCHANGED << keygenVars, categoryVars, userVars, rateVars, encodeVars, restVars >>

ApiStep ==
  \/ \E t \in Tasks : ApiGetObject(t)
  \/ \E patch \in Patches : ApiUpdate(patch)

(* Scanner runs that complete, and API requests that edit tasks. *)
NextCrud == ScannerStep \/ ApiStep
SpecCrud == Init /\ [][NextCrud]_vars

(* ---- the bot's rate limiter: bot/middlewares/rate_limit.py ---- *)

(* The middleware registered for messages, bot/main.py 63. *)
limit == MESSAGE_LIMIT
per == MESSAGE_PER_SECONDS

(* Seconds between two readings of the clock in the model. *)
TickSeconds == per \div 2

(* time.time() moves on. *)
TimePasses ==
  /\ time + TickSeconds <= MaxTicks * TickSeconds
  /\ time' = time + TickSeconds
  /\ UNCHANGED << _hits, handled, answers >>
  /\ UNCHANGED << scannerVars, keygenVars, categoryVars, userVars, crudVars, encodeVars, restVars >>

(* lines 63-64: while dq and now - dq[0] > self.per: dq.popleft() *)
RECURSIVE Evicted(_, _)
Evicted(dq, now) ==
  IF dq # << >> /\ now - Head(dq) > per THEN Evicted(Tail(dq), now) ELSE dq

(* dq.append(now) on a deque(maxlen=100) *)
Appended(dq, now) ==
  IF Len(dq) = HITS_MAXLEN THEN Append(Tail(dq), now) ELSE Append(dq, now)

(* RateLimitMiddleware.__call__ for an event.  from_user is the sender's   *)
(* id, or NULL for an event without a sender (user_id stays None).  The    *)
(* branch at line 65 answers the user; line 70 and the handler call at     *)
(* line 71 follow it in every case.                                        *)
Event(from_user) ==
  /\ Len(handled) < MaxEvents
  /\ IF from_user # NULL
       THEN LET user_id == The(from_user)
                now == time
                dq == Evicted(_hits[user_id], now) IN
            /\ answers' = IF Len(dq) >= limit THEN answers + 1 ELSE answers
            /\ _hits' = [_hits EXCEPT ![user_id] = Appended(dq, now)]
       ELSE UNCHANGED << _hits, answers >>
  /\ handled' = Append(handled, [from_user |-> from_user, at |-> time])
  /\ UNCHANGED time
  /\ UNCHANGED << scannerVars, keygenVars, categoryVars, userVars, crudVars, encodeVars, restVars >>

InitRateLimit ==
  /\ ScannerIdle
  /\ KeygenIdle
  /\ NoCategories
  /\ NoUsers
  /\ NoRequest
  /\ NoHits
  /\ NoEncodeCall
  /\ RestIdle

NextRateLimit ==
  \/ TimePasses
  \/ \E from_user \in {NULL} \cup {Some(u) : u \in BotUsers} : Event(from_user)
SpecRateLimit == InitRateLimit /\ [][NextRateLimit]_vars

(* ---- _b62_encode called on its own ---- *)

(* A call of _b62_encode(num_arg): ValueError, or the string returned. *)
EncodeCall ==
  /\ encoded = NULL
  /\ encoded' = IF _b62_encode_raises(num_arg)
                  THEN Some([raised |-> TRUE, value |-> << >>])
                  ELSE Some([raised |-> FALSE, value |-> _b62_encode(num_arg)])
  /\ UNCHANGED num_arg
  /\ UNCHANGED << scannerVars, keygenVars, categoryVars, userVars, crudVars,
                  rateVars, restVars >>

InitEncode ==
  /\ ScannerIdle
  /\ KeygenIdle
  /\ NoCategories
  /\ NoUsers
  /\ NoRequest
  /\ NoHits
  /\ num_arg \in (0 - MaxNegative)..MaxNumber
  /\ encoded = NULL
  /\ RestIdle

NextEncode == EncodeCall
SpecEncode == InitEncode /\ [][NextEncode]_vars

(* ---- the bot's backend client: bot/services/api.py ---- *)

(* What one self._client.request("POST", "/tasks/") comes back with, and   *)
(* whether the backend has created the task while serving it.  A request   *)
(* that did not connect or was not written through creates nothing; a     *)
(* response that did not arrive in time, and a 5xx, come with or without   *)
(* the task.  ConnectTimeout stands for the exceptions _request does not   *)
(* catch.                                                                  *)
HttpReplies ==
  {[kind |-> "response", status_code |-> 201, created |-> TRUE],
   [kind |-> "response", status_code |-> 400, created |-> FALSE],
   [kind |-> "ConnectError", status_code |-> 0, created |-> FALSE],
   [kind |-> "WriteError", status_code |-> 0, created |-> FALSE],
   [kind |-> "ConnectTimeout", status_code |-> 0, created |-> FALSE]}
  \cup [kind : {"response"}, status_code : {500}, created : BOOLEAN]
  \cup [kind : {"ReadTimeout"}, status_code : {0}, created : BOOLEAN]

(* except (httpx.ConnectError, httpx.ReadTimeout, httpx.WriteError) *)
CaughtExceptions == {"ConnectError", "ReadTimeout", "WriteError"}

(* What _request hands to its caller for a reply: the response, or the     *)
(* exception.                                                              *)
Outcome(reply) == [kind |-> reply.kind, status_code |-> reply.status_code]

notApiVars == << scannerVars, keygenVars, categoryVars, userVars, crudVars,
                 rateVars, encodeVars, dialogVars, pairVars, linkVars >>

(* finalize_creation calls create_task, which calls _request: the for loop *)
(* over range(1, self._retries + 2) starts, or, the range being empty,     *)
(* assert last_exc fails.                                                  *)
CreateTaskCall ==
  /\ api_pc = "idle"
  /\ IF 1 < _retries + 2
       THEN /\ api_pc' = "request"
            /\ attempt' = 1
            /\ UNCHANGED api_result
       ELSE /\ api_pc' = "done"
            /\ api_result' = Some([kind |-> "AssertionError", status_code |-> 0])
            /\ UNCHANGED attempt
  /\ UNCHANGED << _retries, last_exc, last_reply, http_attempts, backend_tasks >>
  /\ UNCHANGED notApiVars

(* attempt <= self._retries *)
MayRetry(n) == n <= _retries

(* One pass through the loop body, lines 68-80. *)
HttpAttempt(reply) ==
  /\ api_pc = "request"
  /\ http_attempts' = http_attempts + 1
  /\ backend_tasks' = backend_tasks + (IF reply.created THEN 1 ELSE 0)
  /\ last_reply' = Some(reply)
  /\ IF reply.kind = "response"
       THEN /\ UNCHANGED last_exc
            /\ IF reply.status_code >= 500 /\ MayRetry(attempt)
                 THEN /\ attempt' = attempt + 1
                      /\ UNCHANGED << api_pc, api_result >>
                 ELSE /\ api_pc' = "done"
                      /\ api_result' = Some(Outcome(reply))
                      /\ UNCHANGED attempt
     ELSE IF reply.kind \in CaughtExceptions
       THEN /\ last_exc' = Some(reply.kind)
            /\ IF MayRetry(attempt)
                 THEN /\ attempt' = attempt + 1
                      /\ UNCHANGED << api_pc, api_result >>
                 ELSE /\ api_pc' = "done"
                      /\ api_result' = Some(Outcome(reply))
                      /\ UNCHANGED attempt
     ELSE /\ api_pc' = "done"
          /\ api_result' = Some(Outcome(reply))
          /\ UNCHANGED << attempt, last_exc >>
  /\ UNCHANGED _retries
  /\ UNCHANGED notApiVars

(* One create_task call under every setting of HTTP_RETRIES. *)
InitBotApi ==
  /\ ScannerIdle
  /\ KeygenIdle
  /\ NoCategories
  /\ NoUsers
  /\ NoRequest
  /\ NoHits
  /\ NoEncodeCall
  /\ NoDialog
  /\ NoKeyPair
  /\ NoApiTasks
  /\ _retries \in (0 - 1)..MaxHttpRetries
  /\ api_pc = "idle"
  /\ attempt = 0
  /\ last_exc = NULL
  /\ api_result = NULL
  /\ last_reply = NULL
  /\ http_attempts = 0
  /\ backend_tasks = 0

NextBotApi == CreateTaskCall \/ \E reply \in HttpReplies : HttpAttempt(reply)
SpecBotApi == InitBotApi /\ [][NextBotApi]_vars

(* ---- the category window of the add-task and edit-task dialogs ---- *)

(* The ids of the categories list_categories has returned for the user. *)
DialogCategories == 1..MaxDialogCategories

(* set(a_list) *)
Range(q) == {q[i] : i \in DOMAIN q}

(* list(a_set): the elements once each, in the order the set iterates. *)
Lists(S) == {q \in [1..Cardinality(S) -> S] : Range(q) = S}

notDialogVars == << scannerVars, keygenVars, categoryVars, userVars, crudVars,
                    rateVars, encodeVars, apiVars, pairVars, linkVars >>

(* The add-task dialog has reached the category window: dialog_data has no *)
(* cats_sel yet.                                                           *)
StartAdd ==
  /\ dialog = "none"
  /\ dialog' = "add"
  /\ cats_sel' = << >>
  /\ start_len' = 0
  /\ UNCHANGED << item_id, toggles >>
  /\ UNCHANGED notDialogVars

(* task_edit.py on_task_selected, lines 104-116: cats_sel is the list of   *)
(* the ids of the categories the task has.                                 *)
StartEdit(task_categories) ==
  /\ dialog = "none"
  /\ dialog' = "edit"
  /\ cats_sel' = task_categories
  /\ start_len' = Len(task_categories)
  /\ UNCHANGED << item_id, toggles >>
  /\ UNCHANGED notDialogVars

(* variant: the limit is tested after the add *)
AtLimit_offByOne(selected) == Cardinality(selected) > TagLimit

(* len(sel) >= 3 *)
AtLimit(selected) == Cardinality(selected) >= TagLimit

(* The body the two handlers share: the new value of cats_sel, the old     *)
(* list itself when the handler returns before its last line.              *)
Toggled(current, item) ==
  LET selected == Range(current) IN
  IF item \in selected THEN Lists(selected \ {item})
  ELSE IF AtLimit(selected) THEN {current}
  ELSE Lists(selected \cup {item})

(* task_add.py on_cat_select *)
on_cat_select(item) ==
  /\ dialog = "add"
  /\ toggles < MaxToggles
  /\ cats_sel' \in Toggled(cats_sel, item)
  /\ item_id' = Some(item)
  /\ toggles' = toggles + 1
  /\ UNCHANGED << dialog, start_len >>
  /\ UNCHANGED notDialogVars

(* task_edit.py on_category_toggle *)
on_category_toggle(item) ==
  /\ dialog = "edit"
  /\ toggles < MaxToggles
  /\ cats_sel' \in Toggled(cats_sel, item)
  /\ item_id' = Some(item)
  /\ toggles' = toggles + 1
  /\ UNCHANGED << dialog, start_len >>
  /\ UNCHANGED notDialogVars

(* finalize_creation: with more than 3 categories the alert and return,    *)
(* otherwise create_task and manager.done().                               *)
finalize_creation ==
  /\ dialog = "add"
  /\ dialog' = IF Len(cats_sel) > TagLimit THEN dialog ELSE "done"
  /\ UNCHANGED << cats_sel, item_id, toggles, start_len >>
  /\ UNCHANGED notDialogVars

(* finalize_edit: the categories go into the PATCH as they are. *)
finalize_edit ==
  /\ dialog = "edit"
  /\ dialog' = "done"
  /\ UNCHANGED << cats_sel, item_id, toggles, start_len >>
  /\ UNCHANGED notDialogVars

(* The lists a task's categories can arrive as: no id twice, up to one     *)
(* more than the limit.                                                    *)
TaskCategoryLists ==
  UNION {Lists(S) : S \in {T \in SUBSET DialogCategories :
                              Cardinality(T) <= TagLimit + 1}}

InitDialog ==
  /\ ScannerIdle
  /\ KeygenIdle
  /\ NoCategories
  /\ NoUsers
  /\ NoRequest
  /\ NoHits
  /\ NoEncodeCall
  /\ NoApiCall
  /\ NoDialog
  /\ NoKeyPair
  /\ NoApiTasks

NextDialog ==
  \/ StartAdd
  \/ \E task_categories \in TaskCategoryLists : StartEdit(task_categories)
  \/ \E item \in DialogCategories : on_cat_select(item)
  \/ \E item \in DialogCategories : on_category_toggle(item)
  \/ finalize_creation
  \/ finalize_edit
SpecDialog == InitDialog /\ [][NextDialog]_vars

(* ---- generate_pk's key as a function of (now_ms, _counter) ---- *)

(* Lines 102-105 for one prefix and kind "T": the key of a millisecond and *)
(* a counter value.                                                        *)
KeyOf(ms, counter) ==
  FormatKey(<< >>, << 84 >>, _b62_encode(ms), _b62_encode(counter))

FormatPair ==
  /\ key_out = NULL
  /\ key_out' = Some(KeyOf(key_args.ms, key_args.counter))
  /\ UNCHANGED key_args
  /\ UNCHANGED << scannerVars, keygenVars, categoryVars, userVars, crudVars,
                  rateVars, encodeVars, apiVars, dialogVars, linkVars >>

InitKeyPairs ==
  /\ ScannerIdle
  /\ KeygenIdle
  /\ NoCategories
  /\ NoUsers
  /\ NoRequest
  /\ NoHits
  /\ NoEncodeCall
  /\ NoApiCall
  /\ NoDialog
  /\ key_args \in [ms : 0..MaxKeyMs, counter : 0..MaxKeyCounter]
  /\ key_out = NULL
  /\ NoApiTasks

NextKeyPairs == FormatPair
SpecKeyPairs == InitKeyPairs /\ [][NextKeyPairs]_vars

(* ---- tasks and their categories: TaskSerializer ---- *)

(* The category table the requests run against: a global category, one of  *)
(* each user.  Id 4 is the id of no category.                              *)
LinkCategories ==
  {[id |-> 1, owner |-> NULL, name |-> "Dom", slug |-> "dom"],
   [id |-> 2, owner |-> Some("u1"), name |-> "Rabota", slug |-> "rabota"],
   [id |-> 3, owner |-> Some("u2"), name |-> "Rabota", slug |-> "rabota"]}

CategoryIdInputs == 1..(Cardinality(LinkCategories) + 1)

(* The categories lists a request carries: ids in any order, an id twice. *)
IdLists == UNION {[1..n -> CategoryIdInputs] : n \in 0..MaxIds}

TitleInputs == {"a", "b"}

(* variant: the categories of every owner are found *)
Available_anyOwner(user) == categories

(* Q(owner__isnull=True) | Q(owner=user) *)
Available(user) == {c \in categories : c.owner = NULL \/ c.owner = Some(user)}

(* _resolve_categories: the ids without repetitions; the categories found  *)
(* among them; ValidationError when one is missing.                        *)
_resolve_categories(ids, user) ==
  LET unique == Range(ids)
      found == {c \in Available(user) : c.id \in unique} IN
  IF unique = {} THEN [raised |-> FALSE, found |-> {}]
  ELSE IF Cardinality(found) # Cardinality(unique)
    THEN [raised |-> TRUE, found |-> {}]
  ELSE [raised |-> FALSE, found |-> {c.id : c \in found}]

NextTaskId == Cardinality(api_tasks) + 1

notLinkVars == << scannerVars, keygenVars, userVars, crudVars, rateVars,
                  encodeVars, apiVars, dialogVars, pairVars >>

(* TaskViewSet.create -> TaskSerializer.create *)
TaskCreate(user, title, ids) ==
  LET resolved == _resolve_categories(ids, user) IN
  /\ resolved.raised \/ Cardinality(api_tasks) < MaxApiTasks
  /\ IF resolved.raised
       THEN /\ api_response' = Some([op |-> "create", task |-> 0, status |-> 400])
            /\ UNCHANGED api_tasks
       ELSE /\ api_tasks' = api_tasks \cup
                              {[id |-> NextTaskId, user |-> user, title |-> title,
                                categories |-> resolved.found]}
            /\ api_response' =
                 Some([op |-> "create", task |-> NextTaskId, status |-> 201])
  /\ UNCHANGED atomic_requests
  /\ UNCHANGED categoryVars
  /\ UNCHANGED notLinkVars

(* TaskViewSet.update / partial_update -> TaskSerializer.update on a task  *)
(* of the requesting user: title is validated_data after the pop (NULL for *)
(* a request without it), ids is NULL for a request without categories.    *)
(* super().update saves the fields; then the categories are resolved and   *)
(* set.  The ValidationError rolls the save back when the request runs in  *)
(* a transaction.                                                          *)
TaskUpdate(old, title, ids) ==
  LET saved == IF title = NULL THEN old ELSE [old EXCEPT !.title = The(title)]
      resolved == _resolve_categories(The(ids), old.user) IN
  /\ old \in api_tasks
  /\ IF ids = NULL
       THEN /\ api_tasks' = (api_tasks \ {old}) \cup {saved}
            /\ api_response' = Some([op |-> "update", task |-> old.id, status |-> 200])
     ELSE IF resolved.raised
       THEN /\ api_tasks' = IF atomic_requests THEN api_tasks
                            ELSE (api_tasks \ {old}) \cup {saved}
            /\ api_response' = Some([op |-> "update", task |-> old.id, status |-> 400])
     ELSE /\ api_tasks' = (api_tasks \ {old})
                            \cup {[saved EXCEPT !.categories = resolved.found]}
          /\ api_response' = Some([op |-> "update", task |-> old.id, status |-> 200])
  /\ UNCHANGED atomic_requests
  /\ UNCHANGED categoryVars
  /\ UNCHANGED notLinkVars

InitLinks ==
  /\ ScannerIdle
  /\ KeygenIdle
  /\ categories = LinkCategories
  /\ seeding = [p \in Seeders |-> [pc |-> "idle", i |-> 1]]
  /\ nulls_distinct = TRUE
  /\ category_result = "none"
  /\ NoUsers
  /\ NoRequest
  /\ NoHits
  /\ NoEncodeCall
  /\ NoApiCall
  /\ NoDialog
  /\ NoKeyPair
  /\ api_tasks = {}
  /\ atomic_requests \in BOOLEAN
  /\ api_response = NULL

NextLinks ==
  \/ \E user \in CategoryOwners : \E title \in TitleInputs :
       \E ids \in IdLists : TaskCreate(user, title, ids)
  \/ \E old \in api_tasks :
       \E title \in {NULL} \cup {Some(v) : v \in TitleInputs} :
         \E ids \in {NULL} \cup {Some(q) : q \in IdLists} :
           TaskUpdate(old, title, ids)
SpecLinks == InitLinks /\ [][NextLinks]_vars

(***************************************************************************)
(* Properties                                                              *)
(***************************************************************************)

(* The eligibility the specification words, written out on a row and a     *)
(* reading of the clock.                                                   *)
Eligible(t, n) ==
  /\ task[t].status = "active"
  /\ task[t].due_at # {}
  /\ \A d \in task[t].due_at : n < d /\ d <= n + 24 * 3600
  /\ telegram_user_id[task[t].user] # {}

Delivered(t) == \E m \in msgs : m.task = t /\ m.state = "delivered"
PermanentlyFailed(t) == \E m \in msgs : m.task = t /\ m.state = "failed"
InFlight(t) == \E m \in msgs : m.task = t /\ m.state = "queued"

(* C1: over any interleaving of concurrent scanner runs (all of which      *)
(* complete), a task's due_notified_at goes from null to non-null at most  *)
(* once, at most one message is enqueued for it, and no run holds a task   *)
(* that an earlier run has marked.                                         *)
C1_AtMostOnce ==
  \A t \in Tasks :
    /\ marks[t] <= 1
    /\ Enqueued(t) <= 1
    /\ task[t].due_notified_at # NULL => \A r \in Runs : t \notin sel[r]

(* Two runs overlap; one has enqueued for t and not yet committed, the     *)
(* other has run its query, with t inside the window whenever it may have  *)
(* read the clock, and does not hold t.                                    *)
C1_Witness ==
  \E r1 \in Runs : \E r2 \in Runs \ {r1} : \E t \in Tasks :
    /\ pc[r1] = "loop" /\ pc[r2] = "loop"
    /\ written[r1][t] # NULL
    /\ Enqueued(t) = 1
    /\ \A n \in 0..clock : Eligible(t, n)
    /\ t \notin sel[r2]

C5_AbortRollsBack ==
  [][\A r \in Runs :
       /\ (pc[r] = "loop" /\ pc'[r] = "idle" /\ aborts' = aborts + 1) =>
            \A t \in sel[r] :
              /\ task'[t] = task[t]
              /\ task'[t].due_notified_at = NULL
              /\ \A q \in Runs : pc'[q] = "loop" => t \notin sel'[q]
       /\ (pc[r] = "idle" /\ pc'[r] = "loop") =>
            \A t \in rolledBack :
              (Eligible(t, clock) /\ ~LockedByOther(r, t)) => t \in sel'[r]
    ]_vars

(* A task for which an aborted run had already enqueued a message is held  *)
(* again by a later run, its due_notified_at still null.                   *)
C5_Witness ==
  \E r \in Runs : \E t \in Tasks :
    /\ aborts >= 1
    /\ pc[r] = "loop"
    /\ t \in sel[r]
    /\ Enqueued(t) >= 1
    /\ task[t].due_notified_at = NULL
    /\ written[r][t] = NULL

(* C6: two scanner transactions that are open at the same time hold        *)
(* disjoint sets of tasks.                                                 *)
C6_DisjointSelections ==
  \A r1 \in Runs : \A r2 \in Runs \ {r1} :
    (pc[r1] = "loop" /\ pc[r2] = "loop") => sel[r1] \cap sel[r2] = {}

(* Two transactions are open and each holds at least one task. *)
C6_Witness ==
  \E r1 \in Runs : \E r2 \in Runs \ {r1} :
    /\ pc[r1] = "loop" /\ pc[r2] = "loop"
    /\ sel[r1] # {} /\ sel[r2] # {}

C8_OnlyEligibleTouched ==
  [][\A t \in Tasks :
       ( \/ Enqueued(t)' # Enqueued(t)
         \/ task'[t].due_notified_at # task[t].due_notified_at
         \/ \E r \in Runs : written'[r][t] # NULL /\ written'[r][t] # written[r][t] )
       => ( /\ task[t].status = "active"
            /\ task[t].due_at # {}
            /\ task[t].due_notified_at = {}
            /\ telegram_user_id[task[t].user] # {} )
    ]_vars

(* A run has committed the mark of one task while a task that is not       *)
(* active, has no due time or whose owner has no chat id was left alone.   *)
C8_Witness ==
  \E t1 \in Tasks : \E t2 \in Tasks :
    /\ marks[t1] = 1
    /\ Enqueued(t1) = 1
    /\ \/ task[t2].status # "active"
       \/ task[t2].due_at = {}
       \/ telegram_user_id[task[t2].user] = {}
    /\ Enqueued(t2) = 0
    /\ task[t2].due_notified_at = {}

(* C9: when a scanner run has ended, every task that was active, due       *)
(* inside the window (whenever the run may have read the clock) and owned  *)
(* by a user with a chat id has been dispatched and has due_notified_at    *)
(* set.                                                                    *)
C9_EligibleDispatched ==
  \A r \in Runs :
    pc[r] = "failed" =>
      \A t \in Tasks :
        (\A n \in 0..clock : Eligible(t, n))
          => (Enqueued(t) >= 1 /\ task[t].due_notified_at # NULL)

C11_SetIsTerminal ==
  [][\A t \in Tasks :
       task[t].due_notified_at # NULL =>
         /\ task'[t].due_notified_at = task[t].due_notified_at
         /\ \A r \in Runs : written'[r][t] = NULL
    ]_vars

(* A task was marked when the clock read 0.  The clock has moved on, the   *)
(* task is still inside the window, every worker is inside a run again     *)
(* (the one that marked the task has run its query since), and none of     *)
(* them holds the task.                                                    *)
C11_Witness ==
  \E t \in Tasks :
    /\ task[t].due_notified_at = {0}
    /\ clock >= 1
    /\ Eligible(t, clock)
    /\ \A r \in Runs : pc[r] = "loop" /\ t \notin sel[r]

(* C12: when the send of a task's notification failed on its first attempt *)
(* and succeeded on the second, the chat has received exactly one message  *)
(* for the task, the invocation is finished, and due_notified_at of the    *)
(* task was set once (or its one write waits for the commit of the run     *)
(* that enqueued the message).                                             *)
C12_RetryDeliversOnce ==
  \A m \in msgs :
    (m.retries = 1 /\ m.sent >= 1) =>
      /\ m.sent = 1
      /\ m.state = "delivered"
      /\ \A x \in msgs : x.task = m.task => (x = m \/ x.sent = 0)
      /\ marks[m.task] <= 1
      /\ \/ marks[m.task] = 1 /\ task[m.task].due_notified_at # NULL
         \/ \E r \in Runs : pc[r] = "loop" /\ written[r][m.task] # NULL

(* The run that enqueued the message has committed; the first attempt      *)
(* failed, the second one went through.                                    *)
C12_Witness ==
  \E m \in msgs :
    /\ m.retries = 1
    /\ m.state = "delivered"
    /\ m.sent = 1
    /\ marks[m.task] = 1
    /\ \A r \in Runs : pc[r] = "idle"

LexLess(a, b) ==
  \E k \in 1..Len(b) :
    /\ \A i \in 1..(k - 1) : i <= Len(a) /\ a[i] = b[i]
    /\ (k > Len(a) \/ a[k] < b[k])

(* C14: the strings generate_pk has returned for one kind in one process   *)
(* are pairwise distinct, whatever the wall clock read at each call.       *)
C14_DistinctKeys ==
  \A i \in DOMAIN issued : \A j \in DOMAIN issued :
    (i # j /\ issued[i].kind = issued[j].kind) => issued[i].key # issued[j].key

(* C15: of two calls with the same kind that observe the same millisecond, *)
(* the later one returns the counter suffix that is greater in string      *)
(* order.                                                                  *)
C15_SuffixIncreases ==
  \A i \in DOMAIN issued : \A j \in DOMAIN issued :
    (i < j /\ issued[i].kind = issued[j].kind /\ issued[i].ms = issued[j].ms)
      => LexLess(issued[i].cnt62, issued[j].cnt62)

InLockBody(th) == kpc[th] \in {"update", "encode"}

C17_KeysTimeOrdered ==
  \A i \in DOMAIN issued : \A j \in DOMAIN issued :
    (i < j /\ issued[i].kind = issued[j].kind /\ issued[i].ms < issued[j].ms)
      => LexLess(issued[i].key, issued[j].key)

(* C18: every string generate_pk has returned is at most _MAX_LEN = 26     *)
(* characters long: at most three characters of prefix, one of kind, and   *)
(* the digits of the timestamp and of the counter.                         *)
C18_KeyFitsColumn ==
  \A i \in DOMAIN issued :
    /\ Len(issued[i].key) <= _MAX_LEN
    /\ Len(issued[i].key) <=
         3 + 1 + Len(_b62_encode(issued[i].ms)) + Len(issued[i].cnt62)

(* PK_PREFIX holds 24 letters; a call has returned a key whose timestamp   *)
(* and counter both take two digits.                                       *)
C18_Witness ==
  \E i \in DOMAIN issued :
    /\ PK_PREFIX # NULL
    /\ Len(The(PK_PREFIX)) = 24
    /\ issued[i].ms >= _BASE
    /\ issued[i].counter >= _BASE
    /\ Len(issued[i].key) = 3 + 1 + 2 + 2

(* The code points of 0-9, A-Z and a-z. *)
Base62Chars == (48..57) \cup (65..90) \cup (97..122)

(* C19: a call of generate_pk whose kind is empty, longer than one         *)
(* character or not a base62 character raises, and the step leaves         *)
(* _last_ms, _counter, the lock and the returned keys as they were; a call *)
(* with a single base62 character does not raise and goes on to the lock.  *)
C19_MalformedKindRaises ==
  [][\A th \in Threads :
       (kpc[th] = "idle" /\ call'[th] # call[th]) =>
         LET kind == call'[th].kind IN
         IF kind = << >> \/ Len(kind) > 1 \/ ~(kind[1] \in Base62Chars)
           THEN /\ call'[th].raised
                /\ kpc'[th] = "idle"
                /\ _last_ms' = _last_ms /\ _counter' = _counter
                /\ _lock' = _lock /\ issued' = issued
           ELSE /\ ~call'[th].raised
                /\ kpc'[th] = "lock"
    ]_vars

(* Calls have returned keys and moved the pair; then a call with kind "-"  *)
(* has raised.                                                             *)
C19_Witness ==
  \E th \in Threads :
    /\ call[th].raised
    /\ call[th].kind = << 45 >>
    /\ kpc[th] = "idle"
    /\ Len(issued) >= 2
    /\ _last_ms = issued[Len(issued)].ms
    /\ _counter = issued[Len(issued)].counter
    /\ _counter >= 1

(* Executions of send_telegram_message_task one invocation has had so far: *)
(* one per retry it has asked for, and the one that ended it.              *)
Attempts(m) == IF m.state = "queued" THEN m.retries ELSE m.retries + 1

(* C20: one submitted send has at most 5 delivery attempts in total, the   *)
(* first included.                                                         *)
C20_AtMostFiveAttempts == \A m \in msgs : Attempts(m) <= 5

(* The answers the specification calls permanent: a response whose status  *)
(* is neither a 2xx nor a 5xx, or a 2xx response whose body is not JSON.   *)
PermanentReply(reply) ==
  /\ reply.transport = "response"
  /\ LET response == The(reply.response) IN
       \/ response.status_code < 200
       \/ response.status_code >= 300 /\ response.status_code < 500
       \/ /\ response.status_code >= 200 /\ response.status_code < 300
          /\ response.body = "invalid_json"

(* A step in which a queue worker has executed invocation m, the provider  *)
(* has answered with reply, and the invocation has become new.             *)
Executed(m, reply, new) ==
  /\ m.state = "queued"
  /\ new = send_telegram_message_task(m, reply)
  /\ msgs' = (msgs \ {m}) \cup {new}

(* C21: an execution of the send task that gets an invalid JSON body or a  *)
(* non-2xx status that is not a server error ends the invocation as failed *)
(* at once: no retry is scheduled, whatever the number of retries so far.  *)
C21_PermanentFailsAtOnce ==
  [][\A m \in msgs \ msgs' : \A new \in msgs' \ msgs :
       \A reply \in AllReplies :
         (PermanentReply(reply) /\ Executed(m, reply, new)) =>
           new = [m EXCEPT !.state = "failed"]
    ]_vars

(* The delays the claim lists, by the number of the retry (1-based). *)
RetryDelays == << 5, 10, 20, 40, 60 >>

(* C22: the delay an invocation was re-queued with on its k-th retry       *)
(* (k - 1 retries made before it) is min(5 * 2^(k-1), 60) seconds: 5, 10,  *)
(* 20, 40, 60 for k = 1..5, non-decreasing and never above 60.             *)
C22_BackoffDelays ==
  \A m \in msgs :
    m.retries >= 1 =>
      LET retry_index == m.retries - 1 IN
      /\ m.retries \in DOMAIN RetryDelays
      /\ m.countdown = RetryDelays[m.retries]
      /\ m.countdown = IF 5 * 2^retry_index < 60 THEN 5 * 2^retry_index ELSE 60
      /\ m.countdown <= 60
      /\ \A k \in 1..(m.retries - 1) : RetryDelays[k] <= m.countdown

(* An invocation has been retried five times and waits for its last        *)
(* execution with the capped delay.                                        *)
C22_Witness ==
  \E m \in msgs : m.state = "queued" /\ m.retries = 5 /\ m.countdown = 60

(* The one answer the claim lets send_message return for. *)
SuccessReply(reply) ==
  /\ reply.transport = "response"
  /\ LET response == The(reply.response) IN
       /\ response.status_code \in 200..299
       /\ response.body = "ok_true"

(* C23: an execution of the send task gets a value back from send_message  *)
(* (and so delivers and ends as delivered) exactly when the provider       *)
(* answered with a 2xx status and a JSON object whose ok is true; for any  *)
(* other answer send_message raises, nothing is delivered and the          *)
(* invocation is retried or failed.                                        *)
C23_ReturnsIffOk ==
  [][\A m \in msgs \ msgs' : \A new \in msgs' \ msgs :
       \A reply \in AllReplies :
         Executed(m, reply, new) =>
           IF SuccessReply(reply)
             THEN new = [m EXCEPT !.sent = @ + 1, !.state = "delivered"]
             ELSE /\ new.sent = m.sent
                  /\ new.state # "delivered"
                  /\ send_message(reply) # "return"
    ]_vars

(* One invocation was delivered at its first execution, another one has    *)
(* had an execution that raised for good without a retry.                  *)
C23_Witness ==
  /\ \E m \in msgs : m.state = "delivered" /\ m.retries = 0 /\ m.sent = 1
  /\ \E m \in msgs : m.state = "failed" /\ m.retries < MAX_RETRIES /\ m.sent = 0

(* C24: no two category rows have the same owner and slug, two rows with   *)
(* no owner (global categories) included, whatever creations and seeding   *)
(* runs have taken place and however they interleaved.                     *)
C24_OwnerSlugUnique ==
  \A c \in categories : \A d \in categories :
    (c.owner = d.owner /\ c.slug = d.slug) => c.id = d.id

(* C25: every stored user row has a username or a Telegram id (or both),   *)
(* whatever creations and bot registrations have run: a creation with      *)
(* neither stores no row.                                                  *)
C25_UsernameOrTelegramId ==
  \A u \in user_rows : u.username # NULL \/ u.telegram_user_id # NULL

(* A user with a username only and one registered through the bot are     *)
(* stored, and the latest creation, one with neither field, was rejected.  *)
C25_Witness ==
  /\ user_result = "user_username_or_tg_required"
  /\ \E u \in user_rows : u.username # NULL /\ u.telegram_user_id = NULL
  /\ \E u \in user_rows : u.username = NULL /\ u.telegram_user_id # NULL

HandledInWindow(u, t) ==
  {i \in 1..Len(handled) :
     /\ handled[i].from_user = Some(u)
     /\ t - per < handled[i].at
     /\ handled[i].at <= t}

(* C27: for every user and every window of per seconds the handler has     *)
(* received at most limit events of that user: an event that arrives when  *)
(* the user has limit hits in the window is not handled.                   *)
C27_AtMostLimitHandled ==
  \A u \in BotUsers : \A i \in 1..Len(handled) :
    Cardinality(HandledInWindow(u, handled[i].at)) <= limit

(* C28: each call leaves the counter at 0 when the millisecond it read     *)
(* differs from the one recorded before it, and at the previous counter    *)
(* plus 1 when it is the same; once a call has returned and no other call  *)
(* is past its update, _last_ms and _counter are the millisecond and the   *)
(* counter of the latest call.  Calls are taken in the order they return,  *)
(* which is the order they held the lock in.                               *)
C28_CounterFollowsMs ==
  /\ \A i \in 1..(Len(issued) - 1) :
       issued[i + 1].counter =
         IF issued[i + 1].ms = issued[i].ms THEN issued[i].counter + 1 ELSE 0
  /\ (Len(issued) > 0 /\ \A th \in Threads : kpc[th] # "encode") =>
       /\ _last_ms = issued[Len(issued)].ms
       /\ _counter = issued[Len(issued)].counter

(* A call in the recorded millisecond has counted up, the clock has moved  *)
(* and the next call has reset the counter.                                *)
C28_Witness ==
  /\ Len(issued) >= 2
  /\ \A th \in Threads : kpc[th] = "idle"
  /\ issued[Len(issued) - 1].counter >= 1
  /\ issued[Len(issued)].ms # issued[Len(issued) - 1].ms
  /\ _counter = 0
  /\ _last_ms = issued[Len(issued)].ms

(* The value of a base62 character: its position in the alphabet digits,   *)
(* uppercase, lowercase, written out from the code points.                 *)
Base62Value(ch) ==
  IF ch >= 48 /\ ch <= 57 THEN ch - 48
  ELSE IF ch >= 65 /\ ch <= 90 THEN ch - 65 + 10
  ELSE ch - 97 + 36

(* The number a base62 numeral stands for, most significant digit first. *)
RECURSIVE Base62Decode(_)
Base62Decode(str) ==
  IF str = << >> THEN 0
  ELSE 62 * Base62Decode(SubSeq(str, 1, Len(str) - 1)) + Base62Value(str[Len(str)])

(* C29: _b62_encode(n) raises ValueError for n < 0; for n >= 0 it returns  *)
(* a non-empty string of base62 characters that decodes to n again, "0"    *)
(* for n = 0 and a string that does not start with "0" for n > 0.          *)
C29_Base62RoundTrip ==
  encoded # NULL =>
    LET result == The(encoded) IN
    IF num_arg < 0
      THEN result.raised
      ELSE /\ ~result.raised
           /\ result.value # << >>
           /\ \A i \in 1..Len(result.value) : result.value[i] \in Base62Chars
           /\ Base62Decode(result.value) = num_arg
           /\ num_arg = 0 => result.value = << 48 >>
           /\ num_arg > 0 => result.value[1] # 48

(* A number of three base62 digits with a zero digit in it has been        *)
(* encoded: 62 * 62 + 1 is "101".                                          *)
C29_Witness ==
  /\ encoded # NULL
  /\ num_arg = 62 * 62 + 1
  /\ The(encoded).value = << 49, 48, 49 >>

(* C30: a mark is the write of due_notified_at of one task, made by a run  *)
(* that is inside its transaction and holds that task's row lock, before   *)
(* and after the write; the step writes to no other task and changes no    *)
(* committed row.  When rows do change, at the commit, a changed row       *)
(* differs from its old value in due_notified_at only, and has the value   *)
(* the committing run wrote for it.                                        *)
C30_MarkOnlyThatTask ==
  [][/\ \A r \in Runs : \A t \in Tasks :
          (written'[r][t] # written[r][t] /\ written'[r][t] # NULL) =>
            /\ pc[r] = "loop" /\ t \in sel[r]
            /\ pc'[r] = "loop" /\ t \in sel'[r]
            /\ \A q \in Runs : q # r => ~(pc[q] = "loop" /\ t \in sel[q])
            /\ \A q \in Runs : \A x \in Tasks :
                 (q # r \/ x # t) => written'[q][x] = written[q][x]
            /\ task' = task
     /\ \A x \in Tasks :
          task'[x] # task[x] =>
            /\ task'[x] = [task[x] EXCEPT !.due_notified_at = task'[x].due_notified_at]
            /\ \E r \in Runs : written[r][x] # NULL
                                /\ task'[x].due_notified_at = written[r][x]
    ]_vars

(* A run holds two rows, has marked one of them and has the other one      *)
(* still to process; nothing is committed yet.                             *)
C30_Witness ==
  \E r \in Runs : \E t \in Tasks : \E x \in Tasks :
    /\ pc[r] = "loop"
    /\ {t, x} \subseteq sel[r]
    /\ t # x
    /\ written[r][t] # NULL
    /\ written[r][x] = NULL
    /\ x \in todo[r]
    /\ task[t].due_notified_at = NULL

(* The invocation has ended: the send was delivered, or the invocation is *)
(* in the failed state the queue records.                                  *)
Ended(m) == m.state \in {"delivered", "failed"}

(* C31: every submitted send ends, delivered or failed, after at most      *)
(* MAX_RETRIES retries, whatever the provider answers: no invocation stays *)
(* queued for ever, and an ended invocation is never executed again.       *)
C31_SendTerminates ==
  /\ [](\A m \in msgs : m.retries <= MAX_RETRIES)
  /\ []<>(\A m \in msgs : Ended(m))
  /\ [][\A m \in msgs : Ended(m) => m \in msgs']_vars

(* One invocation has failed with its retries used up and another was      *)
(* delivered after a retry.                                                *)
C31_Witness ==
  /\ \E m \in msgs : m.state = "failed" /\ m.retries = MAX_RETRIES
  /\ \E m \in msgs : m.state = "delivered" /\ m.retries >= 1

(* The registration requests received so far that carry tg_id. *)
CallsWith(tg_id) ==
  {p \in Registrations : register[p].tg_id = Some(tg_id)}

(* C32: once every BotRegisterView.post call that carries one tg_id has    *)
(* been answered, however the calls interleaved, exactly one user has that *)
(* telegram_user_id, exactly one of the calls has answered is_new = true   *)
(* with 201, and every other call has answered is_new = false with 200.    *)
C32_OneRegistrationIsNew ==
  \A tg_id \in RegisterTelegramIds :
    LET calls == CallsWith(tg_id) IN
    (calls # {} /\ \A p \in calls : register[p].pc = "done") =>
      /\ Cardinality(ByTelegramId(tg_id)) = 1
      /\ Cardinality({p \in calls : register[p].is_new
                                      /\ register[p].status = 201}) = 1
      /\ \A p \in calls :
           \/ register[p].is_new /\ register[p].status = 201
           \/ ~register[p].is_new /\ register[p].status = 200

(* C33: _request makes at most http_retries + 1 HTTP attempts, and when it *)
(* has ended it has returned the response of its last attempt or raised    *)
(* the exception of its last attempt.                                      *)
C33_RequestBounded ==
  /\ http_attempts <= _retries + 1
  /\ api_pc = "done" =>
       /\ last_reply # NULL
       /\ api_result = Some(Outcome(The(last_reply)))

(* C39: one create_task call creates at most one task on the backend. *)
C39_AtMostOneTask == backend_tasks <= 1

(* C34: in a dialog whose category window opened with at most 3 selected   *)
(* categories the selection never holds more than 3; a toggle on a         *)
(* selected category removes it, a toggle on an unselected one adds it     *)
(* when fewer than 3 are selected and leaves cats_sel as it is otherwise.  *)
C34_AtMostThreeSelected ==
  /\ [](start_len <= 3 => Cardinality(Range(cats_sel)) <= 3)
  /\ [][toggles' = toggles + 1 =>
         LET old == Range(cats_sel)
             new == Range(cats_sel')
             item == The(item_id') IN
         /\ Len(cats_sel') = Cardinality(new)
         /\ IF item \in old THEN new = old \ {item}
            ELSE IF Cardinality(old) < 3 THEN new = old \cup {item}
            ELSE cats_sel' = cats_sel
      ]_vars

(* The add dialog started with nothing selected; three toggles have added  *)
(* three categories and the fourth toggle, on another category, was        *)
(* refused.                                                                *)
C34_Witness ==
  /\ dialog = "add"
  /\ start_len = 0
  /\ toggles = 4
  /\ Cardinality(Range(cats_sel)) = 3
  /\ item_id # NULL
  /\ The(item_id) \notin Range(cats_sel)

(* C35: for one prefix and kind, the key formatted from a (millisecond,    *)
(* counter) pair is the key of no other pair.                              *)
C35_KeyInjective ==
  key_out # NULL =>
    \A ms \in 0..MaxKeyMs : \A counter \in 0..MaxKeyCounter :
      << ms, counter >> # << key_args.ms, key_args.counter >> =>
        KeyOf(ms, counter) # The(key_out)

(* The latest request was of kind op and was answered with a validation    *)
(* error.                                                                  *)
Rejected(response, op) ==
  response # NULL /\ The(response).op = op /\ The(response).status = 400

(* C36: a task update that is rejected for an unknown or foreign category  *)
(* id leaves every task as it was, fields and category links.              *)
C36_RejectedUpdateChangesNothing ==
  [][Rejected(api_response', "update") => api_tasks' = api_tasks]_vars

(* C37: every category linked to a task is global or owned by the task's   *)
(* user, and a create that is rejected for its category ids makes no task. *)
C37_LinkedCategoriesVisible ==
  /\ [](\A t \in api_tasks : \A id \in t.categories :
          \E c \in categories :
            c.id = id /\ (c.owner = NULL \/ c.owner = Some(t.user)))
  /\ [][Rejected(api_response', "create") => api_tasks' = api_tasks]_vars

(* A task holds the global category and one of its user's own, and the     *)
(* latest create, with a bad category id, was rejected.                    *)
C37_Witness ==
  /\ \E t \in api_tasks : t.user = "u1" /\ t.categories = {1, 2}
  /\ Cardinality(api_tasks) = 1
  /\ Rejected(api_response, "create")

(* The global categories that carry a preset's name. *)
GlobalNamed(name) == {c \in categories : c.owner = NULL /\ c.name = name}

(* C38: with ensure_preset_categories run any number of times in sequence  *)
(* there is never more than one global category for a preset name; after   *)
(* a run there is exactly one for each, no run has failed, and no step of  *)
(* a run changes the id or the slug of a global category that exists.      *)
C38_SeedingIdempotent ==
  /\ [](\A i \in DOMAIN PRESET_CATEGORIES :
          Cardinality(GlobalNamed(PRESET_CATEGORIES[i])) <= 1)
  /\ []((NoSeeding /\ \E p \in Seeders : seeding[p].pc # "idle") =>
          /\ \A p \in Seeders : seeding[p].pc # "failed"
          /\ \A i \in DOMAIN PRESET_CATEGORIES :
               Cardinality(GlobalNamed(PRESET_CATEGORIES[i])) = 1)
  /\ [][\A c \in categories :
          c.owner = NULL =>
            \E d \in categories' : d.owner = NULL /\ d.id = c.id /\ d.slug = c.slug
      ]_vars

(* Two runs have ended, the second after the first; a user has a category  *)
(* with a preset's slug.                                                   *)
C38_Witness ==
  /\ \A p \in Seeders : seeding[p].pc = "done"
  /\ \E c \in categories : c.owner # NULL /\ c.slug = slugify_unicode(PRESET_CATEGORIES[1])
  /\ \A i \in DOMAIN PRESET_CATEGORIES :
       Cardinality(GlobalNamed(PRESET_CATEGORIES[i])) = 1

====
